---- MODULE Spec2Model ----
(***************************************************************************)
(* Model of the tp-rel-disassembler: the Gekko instruction decoder        *)
(* (src/src/dolphin/GekkoDisassembler.js) and the two-pass section        *)
(* pipeline (src/src/relProcessor.js).                                     *)
(*                                                                         *)
(* Representation.  A JavaScript number that holds an address or a word    *)
(* is a pair <<hi, lo>> standing for hi * 65536 + lo with lo in 0..65535;  *)
(* hi is in 0..65535 for an unsigned 32-bit value and may leave that range *)
(* for an intermediate sum.  Text is a sequence of one-character strings,  *)
(* so that sprintf, the regular expressions and the decimal object keys    *)
(* are computed character by character.                                    *)
(***************************************************************************)
EXTENDS Integers, Sequences, FiniteSets, TLC

\* ------------------------------------------------------------------ bounds
\* Number of instructions of the modelled text section.
SectionWords == 3
\* Number of disassemble calls in one behaviour of the decoder specification.
MaxDecodes == 3
\* Number of processRel invocations in one process of the runs specification.
MaxRuns == 3

\* ------------------------------------------------------------- arithmetic
TwoTo16 == 2 ^ 16

RECURSIVE Pow2(_)
Pow2(n) == IF n = 0 THEN 1 ELSE 2 * Pow2(n - 1)

\* x >>> 0 on a number: the value modulo 2^32.
ToUint32(n) == << n[1] % TwoTo16, n[2] >>

\* number + k for a (possibly negative) integer k.
AddInt(n, k) ==
  LET s == n[2] + k
  IN  << n[1] + (s \div TwoTo16), s % TwoTo16 >>

\* a > b on numbers.
NumGreater(a, b) == a[1] > b[1] \/ (a[1] = b[1] /\ a[2] > b[2])

\* An integer (possibly negative, |k| < 2^30) as a number.
IntToNum(k) == << k \div TwoTo16, k % TwoTo16 >>

\* ------------------------------------------------------------------- text
HexDigits == <<"0","1","2","3","4","5","6","7","8","9","a","b","c","d","e","f">>
DecDigits == <<"0","1","2","3","4","5","6","7","8","9">>

RECURSIVE HexOfNat(_)
\* Number.prototype.toString(16) of a natural below 2^31.
HexOfNat(n) ==
  IF n < 16 THEN << HexDigits[n + 1] >>
  ELSE Append(HexOfNat(n \div 16), HexDigits[(n % 16) + 1])

RECURSIVE DecOfNat(_)
DecOfNat(n) ==
  IF n < 10 THEN << DecDigits[n + 1] >>
  ELSE Append(DecOfNat(n \div 10), DecDigits[(n % 10) + 1])

\* String(k) / sprintf('%s', k) for an integer k.
DecOfInt(k) == IF k < 0 THEN <<"-">> \o DecOfNat(0 - k) ELSE DecOfNat(k)

RECURSIVE PadLeft(_, _, _)
PadLeft(t, width, ch) == IF Len(t) >= width THEN t ELSE PadLeft(<< ch >> \o t, width, ch)

RECURSIVE StripZeros(_)
StripZeros(t) == IF Len(t) > 1 /\ t[1] = "0" THEN StripZeros(Tail(t)) ELSE t

\* (n >>> 0).toString(16): sprintf-js applies >>> 0 to the argument of %x.
HexOfNum(n) ==
  LET u == ToUint32(n)
  IN  StripZeros(PadLeft(HexOfNat(u[1]), 4, "0") \o PadLeft(HexOfNat(u[2]), 4, "0"))

\* sprintf('%x', n), sprintf('%04x', n), sprintf('%08x', n)
FmtX(n) == HexOfNum(n)
FmtX04(n) == PadLeft(HexOfNum(n), 4, "0")
FmtX08(n) == PadLeft(HexOfNum(n), 8, "0")

HexValue(c) == CHOOSE i \in 0..15 : HexDigits[i + 1] = c
IsHexDigit(c) == \E i \in 1..16 : HexDigits[i] = c

RECURSIVE NatOfHex(_)
NatOfHex(t) == IF t = << >> THEN 0 ELSE 16 * NatOfHex(SubSeq(t, 1, Len(t) - 1)) + HexValue(t[Len(t)])

\* Number('0x' + t) for eight hexadecimal digits t.
NumberOfHex8(t) == << NatOfHex(SubSeq(t, 1, 4)), NatOfHex(SubSeq(t, 5, 8)) >>

RECURSIVE DecOfNum(_)
\* String(n) for a number n >= 0: the decimal text used as an object key.
DecOfNum(n) ==
  LET r1 == n[1] % 10
      q1 == n[1] \div 10
      t  == r1 * TwoTo16 + n[2]
      q2 == t \div 10
      d  == t % 10
      q  == << q1 + (q2 \div TwoTo16), q2 % TwoTo16 >>
  IN  IF q = << 0, 0 >> THEN << DecDigits[d + 1] >>
      ELSE Append(DecOfNum(q), DecDigits[d + 1])

CharCode(c) ==
  LET all == <<"\t"," ","-",".","0","1","2","3","4","5","6","7","8","9",":","=",">","A","B","C","D","E","F","G","H","I","J","K","L","M","N","O","P","Q","R","S","T","U","V","W","X","Y","Z","_","a","b","c","d","e","f","g","h","i","j","k","l","m","n","o","p","q","r","s","t","u","v","w","x","y","z">>
  IN  CHOOSE i \in 1..Len(all) : all[i] = c

RECURSIVE StrLess(_, _)
\* a < b on strings, as Array.prototype.sort compares them by default.
StrLess(a, b) ==
  IF b = << >> THEN FALSE
  ELSE IF a = << >> THEN TRUE
  ELSE IF a[1] = b[1] THEN StrLess(Tail(a), Tail(b))
  ELSE CharCode(a[1]) < CharCode(b[1])

IsSpace(c) == c \in {" ", "\t", "\n"}

\* ================================================================ decoder
\* src/src/dolphin/GekkoDisassembler.js

\* A 32-bit constant written as eight hexadecimal digits.
U32(t) == NumberOfHex8(t)

RECURSIVE BitAnd(_, _)
BitAnd(a, b) ==
  IF a = 0 \/ b = 0 THEN 0
  ELSE (a % 2) * (b % 2) + 2 * BitAnd(a \div 2, b \div 2)

\* w & m on 32-bit values; only "zero or not" and the bit pattern are used.
And32(w, m) == << BitAnd(w[1] % TwoTo16, m[1]), BitAnd(w[2], m[2]) >>

IsZero(w) == w[1] = 0 /\ w[2] = 0

PPCINSTR_OTHER == 0
PPCINSTR_BRANCH == 1
PPCINSTR_LDST == 2
PPCINSTR_IMM == 3

PPCF_ILLEGAL == 1
PPCF_UNSIGNED == 2
PPCF_SUPER == 4
PPCF_SIXTY_FOUR == 8

\* The flag word is kept as the set of its set bits; FlagBits(x) is the set for x.
FlagBits(x) == { b \in {1, 2, 4, 8} : (x \div b) % 2 = 1 }

PPCIDXMASK == U32(<<"f","c","0","0","0","0","0","0">>)
PPCIDX2MASK == U32(<<"0","0","0","0","0","7","f","e">>)
PPCDMASK == U32(<<"0","3","e","0","0","0","0","0">>)
PPCAMASK == U32(<<"0","0","1","f","0","0","0","0">>)
PPCBMASK == U32(<<"0","0","0","0","f","8","0","0">>)
PPCCMASK == U32(<<"0","0","0","0","0","7","c","0">>)
PPCMMASK == U32(<<"0","0","0","0","0","0","3","e">>)
PPCCRDMASK == U32(<<"0","3","8","0","0","0","0","0">>)
PPCCRAMASK == U32(<<"0","0","1","c","0","0","0","0">>)
PPCLMASK == U32(<<"0","0","6","0","0","0","0","0">>)
PPCOE == U32(<<"0","0","0","0","0","4","0","0">>)

PPCIDXSH == 26
PPCDSH == 21
PPCASH == 16
PPCBSH == 11
PPCCSH == 6
PPCMSH == 1
PPCCRDSH == 23
PPCCRASH == 18
PPCLSH == 21
PPCIDX2SH == 1

\* (instr & mask) >>> shiftAmt, for the masks above (the result is below 2^16).
createGetFromMask(mask, shiftAmt, instr) ==
  LET x == And32(instr, mask)
  IN  IF shiftAmt >= 16 THEN x[1] \div Pow2(shiftAmt - 16)
      ELSE x[1] * Pow2(16 - shiftAmt) + (x[2] \div Pow2(shiftAmt))

PPCGETIDX(w) == createGetFromMask(PPCIDXMASK, PPCIDXSH, w)
PPCGETD(w) == createGetFromMask(PPCDMASK, PPCDSH, w)
PPCGETA(w) == createGetFromMask(PPCAMASK, PPCASH, w)
PPCGETB(w) == createGetFromMask(PPCBMASK, PPCBSH, w)
PPCGETC(w) == createGetFromMask(PPCCMASK, PPCCSH, w)
PPCGETM(w) == createGetFromMask(PPCMMASK, PPCMSH, w)
PPCGETCRD(w) == createGetFromMask(PPCCRDMASK, PPCCRDSH, w)
PPCGETCRA(w) == createGetFromMask(PPCCRAMASK, PPCCRASH, w)
PPCGETL(w) == createGetFromMask(PPCLMASK, PPCLSH, w)
PPCGETIDX2(w) == createGetFromMask(PPCIDX2MASK, PPCIDX2SH, w)

\* inVal & 1, inVal & 2 (as 0/1), inVal & 3, inVal & 0xffff
Bit0(w) == w[2] % 2
Bit1(w) == (w[2] \div 2) % 2
Low2(w) == w[2] % 4
Low16(w) == w[2]

\* null of the JavaScript tables; sprintf('%s', null) renders it as "null".
Null == << "null" >>
Str(x) == IF x = Null THEN <<"n","u","l","l">> ELSE x

trap_condition ==
  << Null, <<"l","g","t">>, <<"l","l","t">>, Null, <<"e","q">>, <<"l","g","e">>, <<"l","l","e">>, Null,
     <<"g","t">>, Null, Null, Null, <<"g","e">>, Null, Null, Null,
     <<"l","t">>, Null, Null, Null, <<"l","e">>, Null, Null, Null,
     <<"n","e">>, Null, Null, Null, Null, Null, Null, Null >>

cmpname == << <<"c","m","p","w">>, <<"c","m","p","d">>, <<"c","m","p","l","w">>, <<"c","m","p","l","d">> >>

b_ext == << <<>>, <<"l">>, <<"a">>, <<"l","a">> >>

b_condition == << <<"g","e">>, <<"l","e">>, <<"n","e">>, <<"n","s">>, <<"l","t">>, <<"g","t">>, <<"e","q">>, <<"s","o">> >>

b_decr ==
  << <<"n","z","f">>, <<"z","f">>, Null, Null, <<"n","z","t">>, <<"z","t">>, Null, Null,
     <<"n","z">>, <<"z">>, Null, Null, <<"n","z">>, <<"z">>, Null, Null >>

regsel == << <<>>, <<"r">> >>

rcsel == << <<>>, <<".">> >>

ldstnames ==
  << <<"l","w","z">>, <<"l","w","z","u">>, <<"l","b","z">>, <<"l","b","z","u">>, <<"s","t","w">>, <<"s","t","w","u">>, <<"s","t","b">>, <<"s","t","b","u">>,
     <<"l","h","z">>, <<"l","h","z","u">>, <<"l","h","a">>, <<"l","h","a","u">>, <<"s","t","h">>, <<"s","t","h","u">>, <<"l","m","w">>, <<"s","t","m","w">>,
     <<"l","f","s">>, <<"l","f","s","u">>, <<"l","f","d">>, <<"l","f","d","u">>, <<"s","t","f","s">>, <<"s","t","f","s","u">>, <<"s","t","f","d">>, <<"s","t","f","d","u">> >>

regnames ==
  << <<"r","0">>, <<"s","p">>, <<"r","t","o","c">>, <<"r","3">>, <<"r","4">>, <<"r","5">>, <<"r","6">>, <<"r","7">>, <<"r","8">>, <<"r","9">>, <<"r","1","0">>,
     <<"r","1","1">>, <<"r","1","2">>, <<"r","1","3">>, <<"r","1","4">>, <<"r","1","5">>, <<"r","1","6">>, <<"r","1","7">>, <<"r","1","8">>, <<"r","1","9">>, <<"r","2","0">>, <<"r","2","1">>,
     <<"r","2","2">>, <<"r","2","3">>, <<"r","2","4">>, <<"r","2","5">>, <<"r","2","6">>, <<"r","2","7">>, <<"r","2","8">>, <<"r","2","9">>, <<"r","3","0">>, <<"r","3","1">> >>

\* ------------------------------------------------------------ bit vectors
\* A 32-bit integer as a sequence of 32 bits, element p + 1 being the bit at
\* position p counted from the most significant bit (PowerPC numbering).
AllOnes == [p \in 1..32 |-> 1]

\* x >>> n and x << n; JavaScript takes the shift count modulo 32.
ShiftRightU(x, n) == [p \in 1..32 |-> IF p - (n % 32) >= 1 THEN x[p - (n % 32)] ELSE 0]
ShiftLeft(x, n) == [p \in 1..32 |-> IF p + (n % 32) <= 32 THEN x[p + (n % 32)] ELSE 0]
BitsXor(x, y) == [p \in 1..32 |-> (x[p] + y[p]) % 2]
BitsOr(x, y) == [p \in 1..32 |-> IF x[p] = 1 \/ y[p] = 1 THEN 1 ELSE 0]
BitsNot(x) == [p \in 1..32 |-> 1 - x[p]]
ZeroBits == [p \in 1..32 |-> 0]

RECURSIVE BitsToNat(_, _, _)
BitsToNat(x, from, to) ==
  IF from > to THEN 0 ELSE 2 * BitsToNat(x, from, to - 1) + x[to]

\* The bit vector read as an unsigned number (what sprintf's %x prints).
BitsToNum(x) == << BitsToNat(x, 1, 16), BitsToNat(x, 17, 32) >>

\* Variant of HelperRotateMask that rotates the mask to the left.
HelperRotateMask_rotateLeft(r, mb, me) ==
  LET begin == ShiftRightU(AllOnes, mb)
      end == IF me < 31 THEN ShiftRightU(AllOnes, me + 1) ELSE ZeroBits
      mask0 == BitsXor(begin, end)
      mask == IF me < mb THEN BitsNot(mask0) ELSE mask0
  IN  BitsOr(ShiftLeft(mask, r), ShiftRightU(mask, 32 - r))

\* Variant of HelperRotateMask without the inversion of a backwards mask.
HelperRotateMask_noInvert(r, mb, me) ==
  LET begin == ShiftRightU(AllOnes, mb)
      end == IF me < 31 THEN ShiftRightU(AllOnes, me + 1) ELSE ZeroBits
      mask == BitsXor(begin, end)
  IN  BitsOr(ShiftLeft(mask, 32 - r), ShiftRightU(mask, r))

HelperRotateMask(r, mb, me) ==
  LET begin == ShiftRightU(AllOnes, mb)
      end == IF me < 31 THEN ShiftRightU(AllOnes, me + 1) ELSE ZeroBits
      mask0 == BitsXor(begin, end)
      mask == IF me < mb THEN BitsNot(mask0) ELSE mask0
  IN  BitsOr(ShiftLeft(mask, 32 - r), ShiftRightU(mask, r))

\* Variant of ldst_offs that prints a zero displacement in hexadecimal.
ldst_offs_hexZero(val) ==
  IF BitAnd(val, 32768) # 0
  THEN <<"-","0","x">> \o FmtX04(IntToNum((65535 - val) + 1))
  ELSE <<"0","x">> \o FmtX04(IntToNum(val))

ldst_offs(val) ==
  IF val = 0 THEN <<"0">>
  ELSE IF BitAnd(val, 32768) # 0
       THEN <<"-","0","x">> \o FmtX04(IntToNum((65535 - val) + 1))
       ELSE <<"0","x">> \o FmtX04(IntToNum(val))

\* ------------------------------------------------------- scratch state
\* The module-level variables of the decoder as one record; a handler maps
\* the record before the call to the record after it.  threw is TRUE when
\* the handler raised a JavaScript exception.
ScratchInit ==
  [ opcode |-> <<>>, operands |-> <<>>, type |-> PPCINSTR_OTHER,
    flags |-> {PPCF_ILLEGAL}, sreg |-> 0, displacement |-> 0, threw |-> FALSE ]

\* Variant of ill that flags only the non-zero words.
ill_zeroUnflagged(s, inOp) ==
  IF IsZero(inOp)
  THEN [s EXCEPT !.opcode = <<>>, !.operands = <<"-","-","-">>]
  ELSE [s EXCEPT !.opcode = <<"(","i","l","l",")">>, !.operands = FmtX08(inOp),
                 !.flags = @ \cup {PPCF_ILLEGAL}]

ill(s, inOp) ==
  LET s1 == IF IsZero(inOp)
            THEN [s EXCEPT !.opcode = <<>>, !.operands = <<"-","-","-">>]
            ELSE [s EXCEPT !.opcode = <<"(","i","l","l",")">>, !.operands = FmtX08(inOp)]
  IN  [s1 EXCEPT !.flags = @ \cup {PPCF_ILLEGAL}]

\* The value i computed by imm().
imm_i(inVal, uimm) ==
  LET i == Low16(inVal)
  IN  IF uimm = 0 /\ i > 32767 THEN i - 65536 ELSE i

\* The text returned by imm() (hex is forced to true on entry).
imm_text(inVal, uimm, type) ==
  LET i == imm_i(inVal, uimm)
  IN  CASE type = 0 ->
             regnames[PPCGETD(inVal) + 1] \o <<","," ">> \o regnames[PPCGETA(inVal) + 1]
               \o <<","," ","0","x">> \o FmtX(IntToNum(i))
        [] type = 1 ->
             regnames[PPCGETA(inVal) + 1] \o <<","," ">> \o regnames[PPCGETD(inVal) + 1]
               \o <<","," ","0","x">> \o FmtX04(IntToNum(i))
        [] type = 2 -> regnames[PPCGETA(inVal) + 1] \o <<","," ">> \o DecOfInt(i)
        [] type = 3 -> regnames[PPCGETD(inVal) + 1] \o <<","," ","0","x">> \o FmtX04(IntToNum(i))
        [] OTHER -> <<"i","m","m","(",")",":"," ","W","r","o","n","g"," ","t","y","p","e">>

\* The assignments imm() makes to the scratch state.
imm(s, inVal, uimm) ==
  [s EXCEPT !.type = PPCINSTR_IMM,
            !.flags = IF uimm = 0 THEN @ ELSE @ \cup {PPCF_UNSIGNED},
            !.displacement = imm_i(inVal, uimm)]

ra_rb(inVal) == regnames[PPCGETA(inVal) + 1] \o <<","," ">> \o regnames[PPCGETB(inVal) + 1]

trapi(s, inVal, dmode) ==
  LET cnd == trap_condition[PPCGETD(inVal) + 1]
      dw == IF dmode # 0 THEN <<"d">> ELSE <<"w">>
      s1 == [s EXCEPT !.flags = @ \cup FlagBits(dmode)]
      s2 == IF cnd # Null
            THEN [s1 EXCEPT !.opcode = <<"t">> \o dw \o cnd]
            ELSE [s1 EXCEPT !.opcode = <<"t">> \o dw \o <<"i">>,
                            !.operands = DecOfInt(PPCGETD(inVal)) \o <<","," ">>]
      s3 == imm(s2, inVal, 0)
  IN  [s3 EXCEPT !.operands = s2.operands \o imm_text(inVal, 0, 2)]

cmpi(s, inVal, uimm) ==
  LET i == PPCGETL(inVal)
      crd == PPCGETCRD(inVal)
  IN  IF i < 2
      THEN LET s1 == [s EXCEPT !.flags = IF i # 0 THEN @ \cup {PPCF_SIXTY_FOUR} ELSE @,
                               !.opcode = cmpname[uimm * 2 + i + 1] \o <<"i">>]
               s2 == IF crd # 0
                     THEN [s1 EXCEPT !.operands = @ \o <<"c","r">> \o DecOfInt(crd) \o <<","," ">>]
                     ELSE s1
               s3 == imm(s2, inVal, uimm)
           IN  [s3 EXCEPT !.operands = s2.operands \o imm_text(inVal, uimm, 2)]
      ELSE ill(s, inVal)

addi(s, inVal, ext) ==
  IF BitAnd(inVal[1], 2048) # 0 /\ PPCGETA(inVal) = 0
  THEN LET u == IF ext = <<"i">> THEN 0 ELSE 1
       IN  [imm(s, inVal, u) EXCEPT !.opcode = <<"l">> \o ext,
                                     !.operands = imm_text(inVal, u, 3)]
  ELSE LET neg == BitAnd(inVal[2], 32768) # 0
           inVal2 == IF neg THEN << inVal[1], (65535 - inVal[2]) + 1 >> ELSE inVal
       IN  [imm(s, inVal2, 1) EXCEPT
              !.opcode = (IF neg THEN <<"s","u","b">> ELSE <<"a","d","d">>) \o ext,
              !.operands = imm_text(inVal2, 1, 0)]

\* Variant of branch that also classifies the instruction as a branch.
branch_typed(s0, inVal, bname, aform, bdisp) ==
  LET s == [s0 EXCEPT !.type = PPCINSTR_BRANCH] IN
  LET bo == PPCGETD(inVal)
      bi == PPCGETA(inVal)
      y0 == bo % 2
      ext == b_ext[aform * 2 + Bit0(inVal) + 1]
      y1 == IF bdisp < 0 THEN 1 - y0 ELSE y0
      y == IF y1 # 0 THEN <<"+">> ELSE <<"-">>
  IN  IF BitAnd(bo, 4) # 0
      THEN IF BitAnd(bo, 16) # 0
           THEN IF PPCGETIDX(inVal) # 16
                THEN [s EXCEPT !.opcode = <<"b">> \o bname \o ext]
                ELSE [s EXCEPT !.opcode = <<"b","c">> \o ext,
                               !.operands = DecOfInt(bo) \o <<","," ">> \o DecOfInt(bi)]
           ELSE [s EXCEPT
                   !.opcode = <<"b">> \o b_condition[(BitAnd(bo, 8) \div 2) + (bi % 4) + 1]
                                \o bname \o ext \o y,
                   !.operands = IF bi >= 4 THEN <<"c","r">> \o DecOfInt(bi \div 4) ELSE @]
      ELSE [s EXCEPT
              !.opcode = <<"b","d">> \o Str(b_decr[(bo \div 2) + 1]) \o bname \o ext \o y,
              !.operands = IF BitAnd(bo, 16) = 0 THEN DecOfInt(bi) ELSE @]

branch(s, inVal, bname, aform, bdisp) ==
  LET bo == PPCGETD(inVal)
      bi == PPCGETA(inVal)
      y0 == bo % 2
      ext == b_ext[aform * 2 + Bit0(inVal) + 1]
      y1 == IF bdisp < 0 THEN 1 - y0 ELSE y0
      y == IF y1 # 0 THEN <<"+">> ELSE <<"-">>
  IN  IF BitAnd(bo, 4) # 0
      THEN IF BitAnd(bo, 16) # 0
           THEN IF PPCGETIDX(inVal) # 16
                THEN [s EXCEPT !.opcode = <<"b">> \o bname \o ext]
                ELSE [s EXCEPT !.opcode = <<"b","c">> \o ext,
                               !.operands = DecOfInt(bo) \o <<","," ">> \o DecOfInt(bi)]
           ELSE [s EXCEPT
                   !.opcode = <<"b">> \o b_condition[(BitAnd(bo, 8) \div 2) + (bi % 4) + 1]
                                \o bname \o ext \o y,
                   !.operands = IF bi >= 4 THEN <<"c","r">> \o DecOfInt(bi \div 4) ELSE @]
      ELSE [s EXCEPT
              !.opcode = <<"b","d">> \o Str(b_decr[(bo \div 2) + 1]) \o bname \o ext \o y,
              !.operands = IF BitAnd(bo, 16) = 0 THEN DecOfInt(bi) ELSE @]

\* Variant of bc that computes the target from the displacement field without
\* extending its sign.
bc_unsigned(s, iaddr, inVal) ==
  LET d0 == BitAnd(inVal[2], 65532)
      d == IF BitAnd(d0, 32768) # 0 THEN d0 - 65536 ELSE d0
      s1 == branch(s, inVal, <<>>, Bit1(inVal), d)
      target == IF Bit1(inVal) # 0 THEN IntToNum(d0) ELSE AddInt(iaddr, d0)
  IN  [s1 EXCEPT !.operands = @ \o <<" ","-",">","0","x">> \o FmtX08(target),
                 !.type = PPCINSTR_BRANCH,
                 !.displacement = d]

bc(s, iaddr, inVal) ==
  LET d0 == BitAnd(inVal[2], 65532)
      d == IF BitAnd(d0, 32768) # 0 THEN d0 - 65536 ELSE d0
      s1 == branch(s, inVal, <<>>, Bit1(inVal), d)
      target == IF Bit1(inVal) # 0 THEN IntToNum(d) ELSE AddInt(iaddr, d)
  IN  [s1 EXCEPT !.operands = @ \o <<" ","-",">","0","x">> \o FmtX08(target),
                 !.type = PPCINSTR_BRANCH,
                 !.displacement = d]

\* Variant of bli that takes every target as relative to the instruction.
bli_relative(s, iaddr, inVal) ==
  LET d0 == (inVal[1] % 1024) * TwoTo16 + BitAnd(inVal[2], 65532)
      d == IF d0 >= 33554432 THEN d0 - 67108864 ELSE d0
      target == AddInt(iaddr, d)
  IN  [s EXCEPT !.opcode = <<"b">> \o b_ext[Low2(inVal) + 1],
                !.operands = <<"-",">","0","x">> \o FmtX08(target),
                !.type = PPCINSTR_BRANCH,
                !.displacement = d]

bli(s, iaddr, inVal) ==
  LET d0 == (inVal[1] % 1024) * TwoTo16 + BitAnd(inVal[2], 65532)
      d == IF d0 >= 33554432 THEN d0 - 67108864 ELSE d0
      target == IF Bit1(inVal) # 0 THEN IntToNum(d) ELSE AddInt(iaddr, d)
  IN  [s EXCEPT !.opcode = <<"b">> \o b_ext[Low2(inVal) + 1],
                !.operands = <<"-",">","0","x">> \o FmtX08(target),
                !.type = PPCINSTR_BRANCH,
                !.displacement = d]

mcrf(s, inVal, suffix) ==
  IF IsZero(And32(inVal, U32(<<"0","0","6","3","f","8","0","1">>)))
  THEN [s EXCEPT !.opcode = <<"m","c","r","f">> \o suffix,
                 !.operands = <<"c","r">> \o DecOfInt(PPCGETCRD(inVal)) \o <<","," ","c","r">>
                                \o DecOfInt(PPCGETCRA(inVal))]
  ELSE ill(s, inVal)

\* The handler raised an exception: nothing is assigned after the raise.
Throw(s) == [s EXCEPT !.threw = TRUE]

\* n2.empty(): neither a JavaScript string nor the object {} has a method
\* named empty, so evaluating the call raises a TypeError.
crop(s, inVal, n1, n2) ==
  LET crd == PPCGETD(inVal)
      cra == PPCGETA(inVal)
      crb == PPCGETB(inVal)
  IN  IF Bit0(inVal) = 0
      THEN IF cra = crb
           THEN Throw(s)
           ELSE [s EXCEPT !.opcode = <<"c","r">> \o n1,
                          !.operands = DecOfInt(crd) \o <<","," ">> \o DecOfInt(cra)
                                         \o <<","," ">> \o DecOfInt(crb)]
      ELSE ill(s, inVal)

nooper(s, inVal, name, dmode) ==
  IF ~IsZero(And32(inVal, U32(<<"0","3","f","f","f","8","0","1">>)))
  THEN ill(s, inVal)
  ELSE [s EXCEPT !.flags = @ \cup FlagBits(dmode), !.opcode = name]

rlw(s, inVal, name, i) ==
  LET sr == PPCGETD(inVal)
      a == PPCGETA(inVal)
      bsh == PPCGETB(inVal)
      mb == PPCGETC(inVal)
      me == PPCGETM(inVal)
  IN  [s EXCEPT
         !.opcode = <<"r","l","w">> \o name \o (IF Bit0(inVal) # 0 THEN <<".">> ELSE <<>>),
         !.operands = regnames[a + 1] \o <<","," ">> \o regnames[sr + 1] \o <<","," ">>
                        \o regsel[i + 1] \o DecOfInt(bsh) \o <<","," ">> \o DecOfInt(mb)
                        \o <<","," ">> \o DecOfInt(me) \o <<" ","(">>
                        \o FmtX08(BitsToNum(HelperRotateMask(bsh, mb, me))) \o <<")">>]

ori(s, inVal, name) ==
  [imm(s, inVal, 1) EXCEPT !.opcode = name, !.operands = imm_text(inVal, 1, 1)]

rld(s, inVal, name, i) ==
  LET sr == PPCGETD(inVal)
      a == PPCGETA(inVal)
      bsh == IF i # 0 THEN PPCGETB(inVal) ELSE Bit1(inVal) * 32 + PPCGETB(inVal)
      m == BitAnd(inVal[2], 2016) \div 32
  IN  [s EXCEPT
         !.flags = @ \cup {PPCF_SIXTY_FOUR},
         !.opcode = <<"r","l","d">> \o name \o (IF Bit0(inVal) # 0 THEN <<".">> ELSE <<>>),
         !.operands = regnames[a + 1] \o <<","," ">> \o regnames[sr + 1] \o <<","," ">>
                        \o regsel[i + 1] \o DecOfInt(bsh) \o <<","," ">> \o DecOfInt(m)]

cmp(s, inVal) ==
  LET i == PPCGETL(inVal)
      crd == PPCGETCRD(inVal)
  IN  IF i < 2
      THEN [s EXCEPT
              !.flags = IF i # 0 THEN @ \cup {PPCF_SIXTY_FOUR} ELSE @,
              !.opcode = cmpname[(IF ~IsZero(And32(inVal, PPCIDX2MASK)) THEN 2 ELSE 0) + i + 1],
              !.operands = (IF crd # 0 THEN @ \o <<"c","r">> \o DecOfInt(crd) \o <<",">> ELSE @)
                             \o ra_rb(inVal)]
      ELSE ill(s, inVal)

\* Variant of trap that flags the condition 31 of the 32-bit form as illegal.
trap_reservedIllegal(s, inVal, dmode) ==
  LET to == PPCGETD(inVal)
      cnd == trap_condition[to + 1]
  IN  IF cnd # Null
      THEN [s EXCEPT !.flags = @ \cup FlagBits(dmode),
                     !.opcode = <<"t">> \o (IF dmode # 0 THEN <<"d">> ELSE <<"w">>) \o cnd,
                     !.operands = ra_rb(inVal)]
      ELSE IF to = 31 /\ dmode # 0
           THEN [s EXCEPT !.flags = @ \cup FlagBits(dmode),
                          !.opcode = <<"t","d">>,
                          !.operands = <<"3","1",",","0",",","0">>]
           ELSE ill(s, inVal)

trap(s, inVal, dmode) ==
  LET to == PPCGETD(inVal)
      cnd == trap_condition[to + 1]
  IN  IF cnd # Null
      THEN [s EXCEPT !.flags = @ \cup FlagBits(dmode),
                     !.opcode = <<"t">> \o (IF dmode # 0 THEN <<"d">> ELSE <<"w">>) \o cnd,
                     !.operands = ra_rb(inVal)]
      ELSE IF to = 31
           THEN IF dmode # 0
                THEN [s EXCEPT !.flags = @ \cup FlagBits(dmode),
                               !.opcode = <<"t","d">>,
                               !.operands = <<"3","1",",","0",",","0">>]
                ELSE [s EXCEPT !.opcode = <<"t","r","a","p">>]
           ELSE ill(s, inVal)

ldst(s, inVal, name, reg, dmode) ==
  LET sr == PPCGETD(inVal)
      a == PPCGETA(inVal)
      d == Low16(inVal)
  IN  [s EXCEPT
         !.type = PPCINSTR_LDST,
         !.flags = @ \cup FlagBits(dmode),
         !.sreg = a,
         !.displacement = d,
         !.opcode = name,
         !.operands = (IF reg = <<"r">> THEN regnames[sr + 1] ELSE reg \o DecOfInt(sr))
                        \o <<","," ">> \o ldst_offs(d) \o <<" ","(">> \o regnames[a + 1] \o <<")">>]

\* inVal & ~3
ClearLow2(w) == << w[1], w[2] - (w[2] % 4) >>

\* The switch over PPCGETIDX2 of primary opcode 19.
doDisassembly19(inVal) ==
  LET x == PPCGETIDX2(inVal)
  IN  CASE x = 0 -> << "mcrf", inVal, <<>> >>
        [] x = 16 -> << "branch", inVal, <<"l","r">>, 0, 0 >>
        [] x = 33 -> << "crop", inVal, <<"n","o","r">>, <<"n","o","t">> >>
        [] x = 50 -> << "nooper", inVal, <<"r","f","i">>, PPCF_SUPER >>
        [] x = 129 -> << "crop", inVal, <<"a","n","d","c">>, << >> >>
        [] x = 150 -> << "nooper", inVal, <<"i","s","y","n","c">>, 0 >>
        [] x = 193 -> << "crop", inVal, <<"x","o","r">>, <<"c","l","r">> >>
        [] x = 225 -> << "crop", inVal, <<"n","a","n","d">>, << >> >>
        [] x = 257 -> << "crop", inVal, <<"a","n","d">>, << >> >>
        [] x = 289 -> << "crop", inVal, <<"e","q","v">>, <<"s","e","t">> >>
        [] x = 417 -> << "crop", inVal, <<"o","r","c">>, << >> >>
        [] x = 449 -> << "crop", inVal, <<"o","r">>, <<"m","o","v","e">> >>
        [] x = 528 -> << "branch", inVal, <<"c","t","r">>, 0, 0 >>
        [] OTHER -> << "ill", inVal >>

\* The switch over (inVal >> 2) & 7 of primary opcode 30.
doDisassembly30(inVal) ==
  LET x == (inVal[2] \div 4) % 8
  IN  CASE x = 0 -> << "rld", inVal, <<"i","c","l">>, 0 >>
        [] x = 1 -> << "rld", inVal, <<"i","c","r">>, 0 >>
        [] x = 2 -> << "rld", inVal, <<"i","c">>, 0 >>
        [] x = 3 -> << "rld", inVal, <<"i","m","i">>, 0 >>
        [] x = 4 -> << "rld", inVal, IF Bit1(inVal) # 0 THEN <<"c","l">> ELSE <<"c","r">>, 1 >>
        [] OTHER -> << "ill", inVal >>

\* Swaps the D and A register fields.
swapda(w) ==
  << PPCGETIDX(w) * 1024 + PPCGETA(w) * 32 + PPCGETD(w), w[2] >>

\* Swaps the A and B register fields.
swapab(w) ==
  << (w[1] \div 32) * 32 + PPCGETB(w), PPCGETA(w) * 2048 + (w[2] % 2048) >>

\* s.substring(0, s.lastIndexOf(', ')) when the text ends in ', '.
DropLast(t, n) == SubSeq(t, 1, Len(t) - n)

rd_ra_rb(inVal, mask) ==
  LET r1 == IF BitAnd(mask, 4) # 0 THEN regnames[PPCGETD(inVal) + 1] \o <<","," ">> ELSE <<>>
      r2 == IF BitAnd(mask, 2) # 0 THEN r1 \o regnames[PPCGETA(inVal) + 1] \o <<","," ">> ELSE r1
      r3 == IF BitAnd(mask, 1) # 0 THEN r2 \o regnames[PPCGETB(inVal) + 1] \o <<","," ">> ELSE r2
  IN  IF mask # 0 /\ Len(r3) >= 2 THEN DropLast(r3, 2) ELSE r3

fd_ra_rb(inVal, mask) ==
  LET r1 == IF BitAnd(mask, 4) # 0 THEN <<"f">> \o DecOfInt(PPCGETD(inVal)) \o <<",">> ELSE <<>>
      r2 == IF BitAnd(mask, 2) # 0 THEN r1 \o regnames[PPCGETA(inVal) + 1] \o <<",">> ELSE r1
      r3 == IF BitAnd(mask, 1) # 0 THEN r2 \o regnames[PPCGETB(inVal) + 1] \o <<",">> ELSE r2
  IN  IF mask # 0 /\ Len(r3) >= 1 THEN DropLast(r3, 1) ELSE r3

\* oesel[(chkoe && inVal & PPCOE) || 0]: the index is 0 or 0x400, and
\* oesel[0x400] is undefined, which sprintf renders as "undefined".
oesel_text(chkoe, inVal) ==
  LET idx == IF chkoe # 0 THEN BitAnd(inVal[2], 1024) ELSE 0
  IN  CASE idx = 0 -> <<>>
        [] idx = 1 -> <<"o">>
        [] OTHER -> <<"u","n","d","e","f","i","n","e","d">>

\* rcsel[(chkrc < 0 && inVal & 1) || 0]
rcsel_text(chkrc, inVal) == rcsel[(IF chkrc < 0 THEN Bit0(inVal) ELSE 0) + 1]

dab(s, inVal, name, mask, smode, chkoe, chkrc, dmode) ==
  IF chkrc >= 0 /\ Bit0(inVal) # chkrc
  THEN ill(s, inVal)
  ELSE LET v == IF smode # 0 THEN swapda(inVal) ELSE inVal
       IN  [s EXCEPT !.flags = @ \cup FlagBits(dmode),
                     !.opcode = name \o oesel_text(chkoe, v) \o rcsel_text(chkrc, v),
                     !.operands = rd_ra_rb(v, mask)]

rrn(s, inVal, name, smode, chkoe, chkrc, dmode) ==
  IF chkrc >= 0 /\ Bit0(inVal) # chkrc
  THEN ill(s, inVal)
  ELSE LET v == IF smode # 0 THEN swapda(inVal) ELSE inVal
       IN  [s EXCEPT !.flags = @ \cup FlagBits(dmode),
                     !.opcode = name \o oesel_text(chkoe, v) \o rcsel_text(chkrc, v),
                     !.operands = rd_ra_rb(v, 6) \o <<",">> \o DecOfInt(PPCGETB(v))]

mtcr(s, inVal) ==
  LET sr == PPCGETD(inVal)
      crm == (inVal[1] % 16) * 16 + (inVal[2] \div 4096)
  IN  IF ~IsZero(And32(inVal, U32(<<"0","0","1","0","0","8","0","1">>)))
      THEN ill(s, inVal)
      ELSE [s EXCEPT
              !.opcode = <<"m","t","c","r">> \o (IF crm = 255 THEN <<>> ELSE <<"f">>),
              !.operands = (IF crm # 255
                            THEN @ \o <<"0","x">> \o PadLeft(HexOfNat(crm), 2, "0") \o <<",">>
                            ELSE @) \o regnames[sr + 1]]

msr(s, inVal, smode) ==
  LET sr == PPCGETD(inVal)
      seg == inVal[1] % 16
  IN  IF ~IsZero(And32(inVal, U32(<<"0","0","1","0","f","8","0","1">>)))
      THEN ill(s, inVal)
      ELSE [s EXCEPT
              !.flags = @ \cup {PPCF_SUPER},
              !.opcode = <<"m">> \o (IF smode # 0 THEN <<"t">> ELSE <<"f">>) \o <<"s","r">>,
              !.operands = IF smode # 0
                           THEN DecOfInt(seg) \o <<","," ">> \o regnames[sr + 1]
                           ELSE regnames[sr + 1] \o <<","," ">> \o DecOfInt(seg)]

sprNumToName ==
  { << 1, <<"X","E","R">> >>, << 8, <<"L","R">> >>, << 9, <<"C","T","R">> >>, << 18, <<"D","S","I","R">> >>,
    << 19, <<"D","A","R">> >>, << 22, <<"D","E","C">> >>, << 25, <<"S","D","R","1">> >>, << 26, <<"S","R","R","0">> >>,
    << 27, <<"S","R","R","1">> >>, << 272, <<"S","P","R","G","0">> >>, << 273, <<"S","P","R","G","1">> >>, << 274, <<"S","P","R","G","2">> >>,
    << 275, <<"S","P","R","G","3">> >>, << 282, <<"E","A","R">> >>, << 287, <<"P","V","R">> >>, << 528, <<"I","B","A","T","0","U">> >>,
    << 529, <<"I","B","A","T","0","L">> >>, << 530, <<"I","B","A","T","1","U">> >>, << 531, <<"I","B","A","T","1","L">> >>, << 532, <<"I","B","A","T","2","U">> >>,
    << 533, <<"I","B","A","T","2","L">> >>, << 534, <<"I","B","A","T","3","U">> >>, << 535, <<"I","B","A","T","3","L">> >>, << 536, <<"D","B","A","T","0","U">> >>,
    << 537, <<"D","B","A","T","0","L">> >>, << 538, <<"D","B","A","T","1","U">> >>, << 539, <<"D","B","A","T","1","L">> >>, << 540, <<"D","B","A","T","2","U">> >>,
    << 541, <<"D","B","A","T","2","L">> >>, << 542, <<"D","B","A","T","3","U">> >>, << 543, <<"D","B","A","T","3","L">> >>, << 912, <<"G","Q","R","0">> >>,
    << 913, <<"G","Q","R","1">> >>, << 914, <<"G","Q","R","2">> >>, << 915, <<"G","Q","R","3">> >>, << 916, <<"G","Q","R","4">> >>,
    << 917, <<"G","Q","R","5">> >>, << 918, <<"G","Q","R","6">> >>, << 919, <<"G","Q","R","7">> >>, << 920, <<"H","I","D","2">> >>,
    << 921, <<"W","P","A","R">> >>, << 922, <<"D","M","A","_","U">> >>, << 923, <<"D","M","A","_","L">> >>, << 924, <<"E","C","I","D","_","U">> >>,
    << 925, <<"E","C","I","D","_","M">> >>, << 926, <<"E","C","I","D","_","L">> >>, << 936, <<"U","M","M","C","R","0">> >>, << 937, <<"U","P","M","C","1">> >>,
    << 938, <<"U","P","M","C","2">> >>, << 939, <<"U","S","I","A">> >>, << 940, <<"U","M","M","C","R","1">> >>, << 941, <<"U","P","M","C","3">> >>,
    << 942, <<"U","P","M","C","4">> >>, << 943, <<"U","S","D","A">> >>, << 952, <<"M","M","C","R","0">> >>, << 953, <<"P","M","C","1">> >>,
    << 954, <<"P","M","C","2">> >>, << 955, <<"S","I","A">> >>, << 956, <<"M","M","C","R","1">> >>, << 957, <<"P","M","C","3">> >>,
    << 958, <<"P","M","C","4">> >>, << 959, <<"S","D","A">> >>, << 1008, <<"H","I","D","0">> >>, << 1009, <<"H","I","D","1">> >>,
    << 1010, <<"I","A","B","R">> >>, << 1011, <<"H","I","D","4">> >>, << 1013, <<"D","A","B","R">> >>, << 1017, <<"L","2","C","R">> >>,
    << 1019, <<"I","C","T","C">> >>, << 1020, <<"T","H","R","M","1">> >>, << 1021, <<"T","H","R","M","2">> >>, << 1022, <<"T","H","R","M","3">> >> }

spr_name(i) ==
  IF \E e \in sprNumToName : e[1] = i
  THEN (CHOOSE e \in sprNumToName : e[1] = i)[2]
  ELSE DecOfInt(i)

mspr(s, inVal, smode) ==
  LET d == PPCGETD(inVal)
      spr == PPCGETB(inVal) * 32 + PPCGETA(inVal)
      x == CASE spr = 1 -> <<"x","e","r">>
             [] spr = 8 -> <<"l","r">>
             [] spr = 9 -> <<"c","t","r">>
             [] OTHER -> <<"s","p","r">>
      fmt == IF spr \in {1, 8, 9} THEN 0 ELSE 1
  IN  IF Bit0(inVal) # 0
      THEN ill(s, inVal)
      ELSE [s EXCEPT
              !.flags = IF spr \notin {1, 8, 9} THEN @ \cup {PPCF_SUPER} ELSE @,
              !.opcode = <<"m">> \o (IF smode # 0 THEN <<"t">> ELSE <<"f">>) \o x,
              !.operands = IF fmt # 0
                           THEN IF smode # 0
                                THEN spr_name(spr) \o <<","," ">> \o regnames[d + 1]
                                ELSE regnames[d + 1] \o <<","," ">> \o spr_name(spr)
                           ELSE regnames[d + 1]]

mtb(s, inVal) ==
  LET d == PPCGETD(inVal)
      tbr == PPCGETB(inVal) * 32 + PPCGETA(inVal)
  IN  IF Bit0(inVal) # 0
      THEN ill(s, inVal)
      ELSE [s EXCEPT
              !.flags = IF tbr \in {268, 269} THEN @ ELSE @ \cup {PPCF_SUPER},
              !.operands = @ \o regnames[d + 1]
                             \o (IF tbr \in {268, 269} THEN <<>> ELSE <<",">> \o DecOfInt(tbr)),
              !.opcode = <<"m","f","t","b">> \o (CASE tbr = 268 -> <<"l">> [] tbr = 269 -> <<"u">> [] OTHER -> <<>>)]

sradi(s, inVal) ==
  LET sr == PPCGETD(inVal)
      a == PPCGETA(inVal)
      bsh == Bit1(inVal) * 32 + PPCGETB(inVal)
  IN  [s EXCEPT
         !.flags = @ \cup {PPCF_SIXTY_FOUR},
         !.opcode = <<"s","r","a","d","i">> \o (IF Bit0(inVal) # 0 THEN <<".">> ELSE <<>>),
         !.operands = regnames[a + 1] \o <<","," ">> \o regnames[sr + 1] \o <<","," ">> \o DecOfInt(bsh)]

fdabc(s, inVal, name, mask, dmode) ==
  LET m8 == BitAnd(mask, 8) # 0
      o1 == s.operands \o <<"f">> \o DecOfInt(PPCGETD(inVal)) \o <<",">>
      o2 == IF BitAnd(mask, 4) # 0 THEN o1 \o <<"f">> \o DecOfInt(PPCGETA(inVal)) \o <<",">> ELSE o1
      e2 == BitAnd(mask, 4) = 0 /\ ~m8 /\ PPCGETA(inVal) # 0
      o3 == IF BitAnd(mask, 2) # 0 THEN o2 \o <<"f">> \o DecOfInt(PPCGETC(inVal)) \o <<",">> ELSE o2
      e3 == BitAnd(mask, 2) = 0 /\ PPCGETC(inVal) # 0 /\ ~m8
      o4 == IF BitAnd(mask, 1) # 0 THEN o3 \o <<"f">> \o DecOfInt(PPCGETB(inVal)) \o <<",">> ELSE o3
      e4 == BitAnd(mask, 1) = 0 /\ ~m8 /\ PPCGETB(inVal) # 0
      s1 == [s EXCEPT !.flags = @ \cup FlagBits(dmode),
                      !.opcode = <<"f">> \o name \o rcsel[Bit0(inVal) + 1],
                      !.operands = DropLast(o4, 1)]
  IN  IF e2 \/ e3 \/ e4 THEN ill(s1, inVal) ELSE s1

fmr(s, inVal) ==
  [s EXCEPT !.opcode = <<"f","m","r">> \o rcsel[Bit0(inVal) + 1],
            !.operands = <<"f">> \o DecOfInt(PPCGETD(inVal)) \o <<","," ","f">> \o DecOfInt(PPCGETB(inVal))]

fdab(s, inVal, name, mask) ==
  [s EXCEPT !.opcode = name, !.operands = fd_ra_rb(inVal, mask)]

fcmp(s, inVal, c) ==
  IF ~IsZero(And32(inVal, U32(<<"0","0","6","0","0","0","0","1">>)))
  THEN ill(s, inVal)
  ELSE [s EXCEPT !.opcode = <<"f","c","m","p">> \o c,
                 !.operands = <<"c","r">> \o DecOfInt(PPCGETCRD(inVal)) \o <<",","f">>
                                \o DecOfInt(PPCGETA(inVal)) \o <<",","f">> \o DecOfInt(PPCGETB(inVal))]

mtfsb(s, inVal, n) ==
  IF ~IsZero(And32(inVal, U32(<<"0","0","1","f","f","8","0","0">>)))
  THEN ill(s, inVal)
  ELSE [s EXCEPT !.opcode = <<"m","t","f","s","b">> \o DecOfInt(n) \o rcsel[Bit0(inVal) + 1],
                 !.operands = DecOfInt(PPCGETD(inVal))]

\* The switch over PPCGETIDX2 of primary opcode 31: the handler call of each case.
doDisassembly31(inVal) ==
  LET x == PPCGETIDX2(inVal)
  IN  CASE x \in {0, 32} -> IF Bit0(inVal) # 0 THEN << "ill", inVal >> ELSE << "cmp", inVal >>
        [] x = 4 -> IF Bit0(inVal) # 0 THEN << "ill", inVal >> ELSE << "trap", inVal, 0 >>
        [] x \in {8, 520} -> << "dab", swapab(inVal), <<"s","u","b","c">>, 7, 0, 1, -1, 0 >>
        [] x = 9 -> << "dab", inVal, <<"m","u","l","h","d","u">>, 7, 0, 0, -1, PPCF_SIXTY_FOUR >>
        [] x \in {10, 522} -> << "dab", inVal, <<"a","d","d","c">>, 7, 0, 1, -1, 0 >>
        [] x = 11 -> << "dab", inVal, <<"m","u","l","h","w","u">>, 7, 0, 0, -1, 0 >>
        [] x = 19 -> IF ~IsZero(And32(inVal, U32(<<"0","0","1","f","f","8","0","0">>))) THEN << "ill", inVal >> ELSE << "dab", inVal, <<"m","f","c","r">>, 4, 0, 0, 0, 0 >>
        [] x = 20 -> << "dab", inVal, <<"l","w","a","r","x">>, 7, 0, 0, 0, 0 >>
        [] x = 21 -> << "dab", inVal, <<"l","d","x">>, 7, 0, 0, 0, PPCF_SIXTY_FOUR >>
        [] x = 23 -> << "dab", inVal, <<"l","w","z","x">>, 7, 0, 0, 0, 0 >>
        [] x = 24 -> << "dab", inVal, <<"s","l","w">>, 7, 1, 0, -1, 0 >>
        [] x = 26 -> IF ~IsZero(And32(inVal, PPCBMASK)) THEN << "ill", inVal >> ELSE << "dab", inVal, <<"c","n","t","l","z","w">>, 6, 1, 0, -1, 0 >>
        [] x = 27 -> << "dab", inVal, <<"s","l","d">>, 7, 1, 0, -1, PPCF_SIXTY_FOUR >>
        [] x = 28 -> << "dab", inVal, <<"a","n","d">>, 7, 1, 0, -1, 0 >>
        [] x \in {40, 552} -> << "dab", swapab(inVal), <<"s","u","b">>, 7, 0, 1, -1, 0 >>
        [] x = 53 -> << "dab", inVal, <<"l","d","u","x">>, 7, 0, 0, 0, PPCF_SIXTY_FOUR >>
        [] x = 54 -> IF ~IsZero(And32(inVal, PPCDMASK)) THEN << "ill", inVal >> ELSE << "dab", inVal, <<"d","c","b","s","t">>, 3, 0, 0, 0, 0 >>
        [] x = 55 -> << "dab", inVal, <<"l","w","z","u","x">>, 7, 0, 0, 0, 0 >>
        [] x = 58 -> IF ~IsZero(And32(inVal, PPCBMASK)) THEN << "ill", inVal >> ELSE << "dab", inVal, <<"c","n","t","l","z","d">>, 6, 1, 0, -1, PPCF_SIXTY_FOUR >>
        [] x = 60 -> << "dab", inVal, <<"a","n","d","c">>, 7, 1, 0, -1, 0 >>
        [] x = 68 -> << "trap", inVal, PPCF_SIXTY_FOUR >>
        [] x = 73 -> << "dab", inVal, <<"m","u","l","h","d">>, 7, 0, 0, -1, PPCF_SIXTY_FOUR >>
        [] x = 75 -> << "dab", inVal, <<"m","u","l","h","w">>, 7, 0, 0, -1, 0 >>
        [] x = 83 -> IF ~IsZero(And32(inVal, U32(<<"0","0","1","f","f","8","0","0">>))) THEN << "ill", inVal >> ELSE << "dab", inVal, <<"m","f","m","s","r">>, 4, 0, 0, 0, PPCF_SUPER >>
        [] x = 84 -> << "dab", inVal, <<"l","d","a","r","x">>, 7, 0, 0, 0, PPCF_SIXTY_FOUR >>
        [] x = 86 -> IF ~IsZero(And32(inVal, PPCDMASK)) THEN << "ill", inVal >> ELSE << "dab", inVal, <<"d","c","b","f">>, 3, 0, 0, 0, 0 >>
        [] x = 87 -> << "dab", inVal, <<"l","b","z","x">>, 7, 0, 0, 0, 0 >>
        [] x \in {104, 616} -> IF ~IsZero(And32(inVal, PPCBMASK)) THEN << "ill", inVal >> ELSE << "dab", inVal, <<"n","e","g">>, 6, 0, 1, -1, 0 >>
        [] x = 119 -> << "dab", inVal, <<"l","b","z","u","x">>, 7, 0, 0, 0, 0 >>
        [] x = 124 -> IF PPCGETD(inVal) = PPCGETB(inVal) THEN << "dab", inVal, <<"n","o","t">>, 6, 1, 0, -1, 0 >> ELSE << "dab", inVal, <<"n","o","r">>, 7, 1, 0, -1, 0 >>
        [] x \in {136, 648} -> << "dab", inVal, <<"s","u","b","f","e">>, 7, 0, 1, -1, 0 >>
        [] x \in {138, 650} -> << "dab", inVal, <<"a","d","d","e">>, 7, 0, 1, -1, 0 >>
        [] x = 144 -> << "mtcr", inVal >>
        [] x = 146 -> IF ~IsZero(And32(inVal, U32(<<"0","0","1","f","f","8","0","0">>))) THEN << "ill", inVal >> ELSE << "dab", inVal, <<"m","t","m","s","r">>, 4, 0, 0, 0, PPCF_SUPER >>
        [] x = 149 -> << "dab", inVal, <<"s","t","d","x">>, 7, 0, 0, 0, PPCF_SIXTY_FOUR >>
        [] x = 150 -> << "dab", inVal, <<"s","t","w","c","x",".">>, 7, 0, 0, 1, 0 >>
        [] x = 151 -> << "dab", inVal, <<"s","t","w","x">>, 7, 0, 0, 0, 0 >>
        [] x = 181 -> << "dab", inVal, <<"s","t","d","u","x">>, 7, 0, 0, 0, PPCF_SIXTY_FOUR >>
        [] x = 183 -> << "dab", inVal, <<"s","t","w","u","x">>, 7, 0, 0, 0, 0 >>
        [] x \in {200, 712} -> IF ~IsZero(And32(inVal, PPCBMASK)) THEN << "ill", inVal >> ELSE << "dab", inVal, <<"s","u","b","f","z","e">>, 6, 0, 1, -1, 0 >>
        [] x \in {202, 714} -> IF ~IsZero(And32(inVal, PPCBMASK)) THEN << "ill", inVal >> ELSE << "dab", inVal, <<"a","d","d","z","e">>, 6, 0, 1, -1, 0 >>
        [] x = 210 -> << "msr", inVal, 1 >>
        [] x = 214 -> << "dab", inVal, <<"s","t","d","c","x",".">>, 7, 0, 0, 1, PPCF_SIXTY_FOUR >>
        [] x = 215 -> << "dab", inVal, <<"s","t","b","x">>, 7, 0, 0, 0, 0 >>
        [] x \in {232, 744} -> IF ~IsZero(And32(inVal, PPCBMASK)) THEN << "ill", inVal >> ELSE << "dab", inVal, <<"s","u","b","f","m","e">>, 6, 0, 1, -1, 0 >>
        [] x \in {233, 745} -> << "dab", inVal, <<"m","u","l","l","d">>, 7, 0, 1, -1, PPCF_SIXTY_FOUR >>
        [] x \in {234, 746} -> IF ~IsZero(And32(inVal, PPCBMASK)) THEN << "ill", inVal >> ELSE << "dab", inVal, <<"a","d","d","m","e">>, 6, 0, 1, -1, 0 >>
        [] x \in {235, 747} -> << "dab", inVal, <<"m","u","l","l","w">>, 7, 0, 1, -1, 0 >>
        [] x = 242 -> IF ~IsZero(And32(inVal, PPCAMASK)) THEN << "ill", inVal >> ELSE << "dab", inVal, <<"m","t","s","r","i","n">>, 5, 0, 0, 0, PPCF_SUPER >>
        [] x = 246 -> IF ~IsZero(And32(inVal, PPCDMASK)) THEN << "ill", inVal >> ELSE << "dab", inVal, <<"d","c","b","t","s","t">>, 3, 0, 0, 0, 0 >>
        [] x = 247 -> << "dab", inVal, <<"s","t","b","u","x">>, 7, 0, 0, 0, 0 >>
        [] x \in {266, 778} -> << "dab", inVal, <<"a","d","d">>, 7, 0, 1, -1, 0 >>
        [] x = 278 -> IF ~IsZero(And32(inVal, PPCDMASK)) THEN << "ill", inVal >> ELSE << "dab", inVal, <<"d","c","b","t">>, 3, 0, 0, 0, 0 >>
        [] x = 279 -> << "dab", inVal, <<"l","h","z","x">>, 7, 0, 0, 0, 0 >>
        [] x = 284 -> << "dab", inVal, <<"e","q","v">>, 7, 1, 0, -1, 0 >>
        [] x = 306 -> IF ~IsZero(And32(inVal, U32(<<"0","3","f","f","0","0","0","0">>))) THEN << "ill", inVal >> ELSE << "dab", inVal, <<"t","l","b","i","e">>, 1, 0, 0, 0, PPCF_SUPER >>
        [] x = 310 -> << "dab", inVal, <<"e","c","i","w","x">>, 7, 0, 0, 0, 0 >>
        [] x = 311 -> << "dab", inVal, <<"l","h","z","u","x">>, 7, 0, 0, 0, 0 >>
        [] x = 316 -> << "dab", inVal, <<"x","o","r">>, 7, 1, 0, -1, 0 >>
        [] x = 339 -> << "mspr", inVal, 0 >>
        [] x = 341 -> << "dab", inVal, <<"l","w","a","x">>, 7, 0, 0, 0, PPCF_SIXTY_FOUR >>
        [] x = 343 -> << "dab", inVal, <<"l","h","a","x">>, 7, 0, 0, 0, 0 >>
        [] x = 370 -> << "nooper", inVal, <<"t","l","b","i","a">>, PPCF_SUPER >>
        [] x = 371 -> << "mtb", inVal >>
        [] x = 373 -> << "dab", inVal, <<"l","w","a","u","x">>, 7, 0, 0, 0, PPCF_SIXTY_FOUR >>
        [] x = 375 -> << "dab", inVal, <<"l","h","a","u","x">>, 7, 0, 0, 0, 0 >>
        [] x = 407 -> << "dab", inVal, <<"s","t","h","x">>, 7, 0, 0, 0, 0 >>
        [] x = 412 -> << "dab", inVal, <<"o","r","c">>, 7, 1, 0, -1, 0 >>
        [] x = 413 -> << "sradi", inVal >>
        [] x = 434 -> IF ~IsZero(And32(inVal, U32(<<"0","3","f","f","0","0","0","0">>))) THEN << "ill", inVal >> ELSE << "dab", inVal, <<"s","l","b","i","e">>, 1, 0, 0, 0, PPCF_SUPER + PPCF_SIXTY_FOUR >>
        [] x = 438 -> << "dab", inVal, <<"e","c","o","w","x">>, 7, 0, 0, 0, 0 >>
        [] x = 439 -> << "dab", inVal, <<"s","t","h","u","x">>, 7, 0, 0, 0, 0 >>
        [] x = 444 -> IF PPCGETD(inVal) = PPCGETB(inVal) THEN << "dab", inVal, <<"m","r">>, 6, 1, 0, -1, 0 >> ELSE << "dab", inVal, <<"o","r">>, 7, 1, 0, -1, 0 >>
        [] x \in {457, 969} -> << "dab", inVal, <<"d","i","v","d","u">>, 7, 0, 1, -1, PPCF_SIXTY_FOUR >>
        [] x \in {459, 971} -> << "dab", inVal, <<"d","i","v","w","u">>, 7, 0, 1, -1, 0 >>
        [] x = 467 -> << "mspr", inVal, 1 >>
        [] x = 470 -> IF ~IsZero(And32(inVal, PPCDMASK)) THEN << "ill", inVal >> ELSE << "dab", inVal, <<"d","c","b","i">>, 3, 0, 0, 0, 0 >>
        [] x = 476 -> << "dab", inVal, <<"n","a","n","d">>, 7, 1, 0, -1, 0 >>
        [] x \in {489, 1001} -> << "dab", inVal, <<"d","i","v","d">>, 7, 0, 1, -1, PPCF_SIXTY_FOUR >>
        [] x \in {491, 1003} -> << "dab", inVal, <<"d","i","v","w">>, 7, 0, 1, -1, 0 >>
        [] x = 498 -> << "nooper", inVal, <<"s","l","b","i","a">>, PPCF_SUPER + PPCF_SIXTY_FOUR >>
        [] x = 512 -> IF ~IsZero(And32(inVal, U32(<<"0","0","7","f","f","8","0","1">>))) THEN << "ill", inVal >> ELSE << "set", <<"m","c","r","x","r">>, <<"c","r">> \o DecOfInt(PPCGETCRD(inVal)) >>
        [] x = 533 -> << "dab", inVal, <<"l","s","w","x">>, 7, 0, 0, 0, 0 >>
        [] x = 534 -> << "dab", inVal, <<"l","w","b","r","x">>, 7, 0, 0, 0, 0 >>
        [] x = 535 -> << "fdab", inVal, <<"l","f","s","x">>, 7 >>
        [] x = 536 -> << "dab", inVal, <<"s","r","w">>, 7, 1, 0, -1, 0 >>
        [] x = 539 -> << "dab", inVal, <<"s","r","d">>, 7, 1, 0, -1, PPCF_SIXTY_FOUR >>
        [] x = 566 -> << "nooper", inVal, <<"t","l","b","s","y","n","c">>, PPCF_SUPER >>
        [] x = 567 -> << "fdab", inVal, <<"l","f","s","u","x">>, 7 >>
        [] x = 595 -> << "msr", inVal, 0 >>
        [] x = 597 -> << "rrn", inVal, <<"l","s","w","i">>, 0, 0, 0, 0 >>
        [] x = 598 -> << "nooper", inVal, <<"s","y","n","c">>, PPCF_SUPER >>
        [] x = 599 -> << "fdab", inVal, <<"l","f","d","x">>, 7 >>
        [] x = 631 -> << "fdab", inVal, <<"l","f","d","u","x">>, 7 >>
        [] x = 659 -> IF ~IsZero(And32(inVal, PPCAMASK)) THEN << "ill", inVal >> ELSE << "dab", inVal, <<"m","f","s","r","i","n">>, 5, 0, 0, 0, PPCF_SUPER >>
        [] x = 661 -> << "dab", inVal, <<"s","t","s","w","x">>, 7, 0, 0, 0, 0 >>
        [] x = 662 -> << "dab", inVal, <<"s","t","w","b","r","x">>, 7, 0, 0, 0, 0 >>
        [] x = 663 -> << "fdab", inVal, <<"s","t","f","s","x">>, 7 >>
        [] x = 695 -> << "fdab", inVal, <<"s","t","f","s","u","x">>, 7 >>
        [] x = 725 -> << "rrn", inVal, <<"s","t","s","w","i">>, 0, 0, 0, 0 >>
        [] x = 727 -> << "fdab", inVal, <<"s","t","f","d","x">>, 7 >>
        [] x = 759 -> << "fdab", inVal, <<"s","t","f","d","u","x">>, 7 >>
        [] x = 790 -> << "dab", inVal, <<"l","h","b","r","x">>, 7, 0, 0, 0, 0 >>
        [] x = 792 -> << "dab", inVal, <<"s","r","a","w">>, 7, 1, 0, -1, 0 >>
        [] x = 794 -> << "dab", inVal, <<"s","r","a","d">>, 7, 1, 0, -1, PPCF_SIXTY_FOUR >>
        [] x = 824 -> << "rrn", inVal, <<"s","r","a","w","i">>, 1, 0, -1, 0 >>
        [] x = 854 -> << "nooper", inVal, <<"e","i","e","i","o">>, PPCF_SUPER >>
        [] x = 918 -> << "dab", inVal, <<"s","t","h","b","r","x">>, 7, 0, 0, 0, 0 >>
        [] x = 922 -> IF ~IsZero(And32(inVal, PPCBMASK)) THEN << "ill", inVal >> ELSE << "dab", inVal, <<"e","x","t","s","h">>, 6, 1, 0, -1, 0 >>
        [] x = 954 -> IF ~IsZero(And32(inVal, PPCBMASK)) THEN << "ill", inVal >> ELSE << "dab", inVal, <<"e","x","t","s","b">>, 6, 1, 0, -1, 0 >>
        [] x = 982 -> IF ~IsZero(And32(inVal, PPCDMASK)) THEN << "ill", inVal >> ELSE << "dab", inVal, <<"i","c","b","i">>, 3, 0, 0, 0, 0 >>
        [] x = 983 -> << "fdab", inVal, <<"s","t","f","i","w","x">>, 7 >>
        [] x = 986 -> IF ~IsZero(And32(inVal, PPCBMASK)) THEN << "ill", inVal >> ELSE << "dab", inVal, <<"e","x","t","s","w">>, 6, 1, 0, -1, PPCF_SIXTY_FOUR >>
        [] x = 1014 -> IF ~IsZero(And32(inVal, PPCDMASK)) THEN << "ill", inVal >> ELSE << "dab", inVal, <<"d","c","b","z">>, 3, 0, 0, 0, 0 >>
        [] OTHER -> << "ill", inVal >>

\* The switch over inVal & 0x3e of primary opcode 59.
doDisassembly59(inVal) ==
  LET x == BitAnd(inVal[2], 62)
  IN  CASE x = 36 -> << "fdabc", inVal, <<"d","i","v","s">>, 5, 0 >>
        [] x = 40 -> << "fdabc", inVal, <<"s","u","b","s">>, 5, 0 >>
        [] x = 42 -> << "fdabc", inVal, <<"a","d","d","s">>, 5, 0 >>
        [] x = 44 -> << "fdabc", inVal, <<"s","q","r","t","s">>, 1, 0 >>
        [] x = 48 -> << "fdabc", inVal, <<"r","e","s">>, 1, 0 >>
        [] x = 50 -> << "fdabc", inVal, <<"m","u","l","s">>, 6, 0 >>
        [] x = 56 -> << "fdabc", inVal, <<"m","s","u","b","s">>, 7, 0 >>
        [] x = 58 -> << "fdabc", inVal, <<"m","a","d","d","s">>, 7, 0 >>
        [] x = 60 -> << "fdabc", inVal, <<"n","m","s","u","b","s">>, 7, 0 >>
        [] x = 62 -> << "fdabc", inVal, <<"n","m","a","d","d","s">>, 7, 0 >>
        [] OTHER -> << "ill", inVal >>

\* Primary opcode 63 with bit 5 set: the switch over inVal & 0x1e.
doDisassembly63a(inVal) ==
  LET x == BitAnd(inVal[2], 30)
  IN  CASE x = 4 -> << "fdabc", inVal, <<"d","i","v">>, 5, 0 >>
        [] x = 8 -> << "fdabc", inVal, <<"s","u","b">>, 5, 0 >>
        [] x = 10 -> << "fdabc", inVal, <<"a","d","d">>, 5, 0 >>
        [] x = 12 -> << "fdabc", inVal, <<"s","q","r","t">>, 1, 0 >>
        [] x = 14 -> << "fdabc", inVal, <<"s","e","l">>, 7, 0 >>
        [] x = 18 -> << "fdabc", inVal, <<"m","u","l">>, 6, 0 >>
        [] x = 20 -> << "fdabc", inVal, <<"r","s","q","r","t","e">>, 1, 0 >>
        [] x = 24 -> << "fdabc", inVal, <<"m","s","u","b">>, 7, 0 >>
        [] x = 26 -> << "fdabc", inVal, <<"m","a","d","d">>, 7, 0 >>
        [] x = 28 -> << "fdabc", inVal, <<"n","m","s","u","b">>, 7, 0 >>
        [] x = 30 -> << "fdabc", inVal, <<"n","m","a","d","d">>, 7, 0 >>
        [] OTHER -> << "ill", inVal >>

\* The field accessors of the paired-single handlers that are not PPCGET*.
WX(inst) == (inst[2] \div 1024) % 2
IX(inst) == (inst[2] \div 128) % 8
W(inst) == (inst[2] \div 32768) % 2
I(inst) == (inst[2] \div 4096) % 8

\* x | 0xfffff000 is a negative 32-bit integer when bit 11 of x is set.
SEX12(x) == IF BitAnd(x, 2048) # 0 THEN x - 4096 ELSE x

ps_cmpname == << <<"p","s","_","c","m","p","u","0">>, <<"p","s","_","c","m","p","o","0">>, <<"p","s","_","c","m","p","u","1">>, <<"p","s","_","c","m","p","o","1">> >>

\* ps(): the first switch, over (inst >> 1) & 0x1f; s when no case matches.
ps_5(s, inst) ==
  LET x == PPCGETM(inst)
  IN  CASE x = 6 ->
             [s EXCEPT !.opcode = IF BitAnd(inst[2], 64) # 0 THEN <<"p","s","q","_","l","u","x">> ELSE <<"p","s","q","_","l","x">>,
                       !.operands = <<"p">> \o DecOfInt(PPCGETD(inst)) \o <<","," ","(","r">> \o DecOfInt(PPCGETA(inst)) \o <<" ","+"," ","r">> \o DecOfInt(PPCGETB(inst)) \o <<")",","," ">> \o DecOfInt(WX(inst)) \o <<","," ","q","r">> \o DecOfInt(IX(inst))]
        [] x = 7 ->
             [s EXCEPT !.opcode = IF BitAnd(inst[2], 64) # 0 THEN <<"p","s","q","_","s","t","u","x">> ELSE <<"p","s","q","_","s","t","x">>,
                       !.operands = <<"p">> \o DecOfInt(PPCGETD(inst)) \o <<","," ","r">> \o DecOfInt(PPCGETA(inst)) \o <<","," ","r">> \o DecOfInt(PPCGETB(inst)) \o <<","," ">> \o DecOfInt(WX(inst)) \o <<","," ","q","r">> \o DecOfInt(IX(inst))]
        [] x = 18 ->
             [s EXCEPT !.opcode = <<"p","s","_","d","i","v">>,
                       !.operands = <<"p">> \o DecOfInt(PPCGETD(inst)) \o <<","," ","p">> \o DecOfInt(PPCGETA(inst)) \o <<"/","p">> \o DecOfInt(PPCGETB(inst))]
        [] x = 20 ->
             [s EXCEPT !.opcode = <<"p","s","_","s","u","b">>,
                       !.operands = <<"p">> \o DecOfInt(PPCGETD(inst)) \o <<","," ","p">> \o DecOfInt(PPCGETA(inst)) \o <<"-","p">> \o DecOfInt(PPCGETB(inst))]
        [] x = 21 ->
             [s EXCEPT !.opcode = <<"p","s","_","a","d","d">>,
                       !.operands = <<"p">> \o DecOfInt(PPCGETD(inst)) \o <<","," ","p">> \o DecOfInt(PPCGETA(inst)) \o <<"+","p">> \o DecOfInt(PPCGETB(inst))]
        [] x = 23 ->
             [s EXCEPT !.opcode = <<"p","s","_","s","e","l">>,
                       !.operands = <<"p">> \o DecOfInt(PPCGETD(inst)) \o <<">","=","0","?","p">> \o DecOfInt(PPCGETA(inst)) \o <<":","p">> \o DecOfInt(PPCGETC(inst))]
        [] x = 24 ->
             [s EXCEPT !.opcode = <<"p","s","_","r","e","s">>,
                       !.operands = <<"p">> \o DecOfInt(PPCGETD(inst)) \o <<","," ","(","1","/","p">> \o DecOfInt(PPCGETB(inst)) \o <<")">>]
        [] x = 25 ->
             [s EXCEPT !.opcode = <<"p","s","_","m","u","l">>,
                       !.operands = <<"p">> \o DecOfInt(PPCGETD(inst)) \o <<","," ","p">> \o DecOfInt(PPCGETA(inst)) \o <<"*","p">> \o DecOfInt(PPCGETC(inst))]
        [] x = 26 ->
             [s EXCEPT !.opcode = <<"p","s","_","r","s","q","r","t","e">>,
                       !.operands = <<"p">> \o DecOfInt(PPCGETD(inst)) \o <<","," ","p">> \o DecOfInt(PPCGETB(inst))]
        [] x = 28 ->
             [s EXCEPT !.opcode = <<"p","s","_","m","s","u","b">>,
                       !.operands = <<"p">> \o DecOfInt(PPCGETD(inst)) \o <<","," ","p">> \o DecOfInt(PPCGETA(inst)) \o <<"*","p">> \o DecOfInt(PPCGETC(inst)) \o <<"-","p">> \o DecOfInt(PPCGETB(inst))]
        [] x = 29 ->
             [s EXCEPT !.opcode = <<"p","s","_","m","a","d","d">>,
                       !.operands = <<"p">> \o DecOfInt(PPCGETD(inst)) \o <<","," ","p">> \o DecOfInt(PPCGETA(inst)) \o <<"*","p">> \o DecOfInt(PPCGETC(inst)) \o <<"+","p">> \o DecOfInt(PPCGETB(inst))]
        [] x = 30 ->
             [s EXCEPT !.opcode = <<"p","s","_","n","m","s","u","b">>,
                       !.operands = <<"p">> \o DecOfInt(PPCGETD(inst)) \o <<","," ","-","(","p">> \o DecOfInt(PPCGETA(inst)) \o <<"*","p">> \o DecOfInt(PPCGETC(inst)) \o <<"-","p">> \o DecOfInt(PPCGETB(inst)) \o <<")">>]
        [] x = 31 ->
             [s EXCEPT !.opcode = <<"p","s","_","n","m","a","d","d">>,
                       !.operands = <<"p">> \o DecOfInt(PPCGETD(inst)) \o <<","," ","-","(","p">> \o DecOfInt(PPCGETA(inst)) \o <<"*","p">> \o DecOfInt(PPCGETC(inst)) \o <<"+","p">> \o DecOfInt(PPCGETB(inst)) \o <<")">>]
        [] x = 10 ->
             [s EXCEPT !.opcode = <<"p","s","_","s","u","m","0">>,
                       !.operands = <<"p">> \o DecOfInt(PPCGETD(inst)) \o <<","," ","0","=","p">> \o DecOfInt(PPCGETA(inst)) \o <<"+","p">> \o DecOfInt(PPCGETB(inst)) \o <<","," ","1","=","p">> \o DecOfInt(PPCGETC(inst))]
        [] x = 11 ->
             [s EXCEPT !.opcode = <<"p","s","_","s","u","m","1">>,
                       !.operands = <<"p">> \o DecOfInt(PPCGETD(inst)) \o <<","," ","0","=","p">> \o DecOfInt(PPCGETC(inst)) \o <<","," ","1","=","p">> \o DecOfInt(PPCGETA(inst)) \o <<"+","p">> \o DecOfInt(PPCGETB(inst))]
        [] x = 12 ->
             [s EXCEPT !.opcode = <<"p","s","_","m","u","l","s","0">>,
                       !.operands = <<"p">> \o DecOfInt(PPCGETD(inst)) \o <<","," ","p">> \o DecOfInt(PPCGETA(inst)) \o <<"*","p">> \o DecOfInt(PPCGETC(inst)) \o <<"[","0","]">>]
        [] x = 13 ->
             [s EXCEPT !.opcode = <<"p","s","_","m","u","l","s","1">>,
                       !.operands = <<"p">> \o DecOfInt(PPCGETD(inst)) \o <<","," ","p">> \o DecOfInt(PPCGETA(inst)) \o <<"*","p">> \o DecOfInt(PPCGETC(inst)) \o <<"[","1","]">>]
        [] x = 14 ->
             [s EXCEPT !.opcode = <<"p","s","_","m","a","d","d","s","0">>,
                       !.operands = <<"p">> \o DecOfInt(PPCGETD(inst)) \o <<","," ","p">> \o DecOfInt(PPCGETA(inst)) \o <<"*","p">> \o DecOfInt(PPCGETC(inst)) \o <<"[","0","]","+","p">> \o DecOfInt(PPCGETB(inst))]
        [] x = 15 ->
             [s EXCEPT !.opcode = <<"p","s","_","m","a","d","d","s","1">>,
                       !.operands = <<"p">> \o DecOfInt(PPCGETD(inst)) \o <<","," ","p">> \o DecOfInt(PPCGETA(inst)) \o <<"*","p">> \o DecOfInt(PPCGETC(inst)) \o <<"[","1","]","+","p">> \o DecOfInt(PPCGETB(inst))]
        [] OTHER -> s

\* ps(): the second switch, over (inst >> 1) & 0x3ff; s when no case matches.
ps_10(s, inst) ==
  LET x == PPCGETIDX2(inst)
  IN  CASE x = 40 ->
             [s EXCEPT !.opcode = <<"p","s","_","n","e","g">>,
                       !.operands = <<"p">> \o DecOfInt(PPCGETD(inst)) \o <<","," ","-","p">> \o DecOfInt(PPCGETB(inst))]
        [] x = 72 ->
             [s EXCEPT !.opcode = <<"p","s","_","m","r">>,
                       !.operands = <<"p">> \o DecOfInt(PPCGETD(inst)) \o <<","," ","p">> \o DecOfInt(PPCGETB(inst))]
        [] x = 136 ->
             [s EXCEPT !.opcode = <<"p","s","_","n","a","b","s">>,
                       !.operands = <<"p">> \o DecOfInt(PPCGETD(inst)) \o <<","," ","-","|","p">> \o DecOfInt(PPCGETB(inst)) \o <<"|">>]
        [] x = 264 ->
             [s EXCEPT !.opcode = <<"p","s","_","a","b","s">>,
                       !.operands = <<"p">> \o DecOfInt(PPCGETD(inst)) \o <<","," ","|","p">> \o DecOfInt(PPCGETB(inst)) \o <<"|">>]
        [] x \in {0, 32, 64, 96} ->
             LET crd == PPCGETCRD(inst)
             IN  [s EXCEPT !.opcode = ps_cmpname[((inst[2] \div 64) % 4) + 1],
                           !.operands = (IF crd # 0 THEN @ \o <<"c","r">> \o DecOfInt(crd) \o <<","," ">> ELSE @)
                                          \o <<"p">> \o DecOfInt(PPCGETA(inst)) \o <<","," ","p">> \o DecOfInt(PPCGETB(inst))]
        [] x = 528 ->
             [s EXCEPT !.opcode = <<"p","s","_","m","e","r","g","e","0","0">>,
                       !.operands = <<"p">> \o DecOfInt(PPCGETD(inst)) \o <<","," ","p">> \o DecOfInt(PPCGETA(inst)) \o <<"[","0","]",",","p">> \o DecOfInt(PPCGETB(inst)) \o <<"[","0","]">>]
        [] x = 560 ->
             [s EXCEPT !.opcode = <<"p","s","_","m","e","r","g","e","0","1">>,
                       !.operands = <<"p">> \o DecOfInt(PPCGETD(inst)) \o <<","," ","p">> \o DecOfInt(PPCGETA(inst)) \o <<"[","0","]",",","p">> \o DecOfInt(PPCGETB(inst)) \o <<"[","1","]">>]
        [] x = 592 ->
             [s EXCEPT !.opcode = <<"p","s","_","m","e","r","g","e","1","0">>,
                       !.operands = <<"p">> \o DecOfInt(PPCGETD(inst)) \o <<","," ","p">> \o DecOfInt(PPCGETA(inst)) \o <<"[","1","]",",","p">> \o DecOfInt(PPCGETB(inst)) \o <<"[","0","]">>]
        [] x = 624 ->
             [s EXCEPT !.opcode = <<"p","s","_","m","e","r","g","e","1","1">>,
                       !.operands = <<"p">> \o DecOfInt(PPCGETD(inst)) \o <<","," ","p">> \o DecOfInt(PPCGETA(inst)) \o <<"[","1","]",",","p">> \o DecOfInt(PPCGETB(inst)) \o <<"[","1","]">>]
        [] x = 1014 ->
             IF ~IsZero(And32(inst, PPCDMASK)) THEN ill(s, inst)
             ELSE dab(s, inst, <<"d","c","b","z","_","l">>, 3, 0, 0, 0, 0)
        [] OTHER -> s

ps_5_cases == {6, 7, 18, 20, 21, 23, 24, 25, 26, 28, 29, 30, 31, 10, 11, 12, 13, 14, 15}

ps_10_cases == {40, 72, 136, 264, 0, 32, 64, 96, 528, 560, 592, 624, 1014}

ps(s, inst) ==
  IF PPCGETM(inst) \in ps_5_cases THEN ps_5(s, inst)
  ELSE IF PPCGETIDX2(inst) \in ps_10_cases THEN ps_10(s, inst)
  ELSE [s EXCEPT !.opcode = <<"p","s","_">> \o DecOfInt(PPCGETM(inst)), !.operands = <<"-","-","-">>]

ps_mem(s, inst) ==
  LET x == PPCGETIDX(inst)
  IN  CASE x = 56 ->
             [s EXCEPT !.opcode = <<"p","s","q","_","l">>,
                       !.operands = <<"p">> \o DecOfInt(PPCGETD(inst)) \o <<","," ">> \o DecOfInt(SEX12(inst[2] % 4096)) \o <<"(","r">> \o DecOfInt(PPCGETA(inst)) \o <<")",","," ">> \o DecOfInt(W(inst)) \o <<","," ","q","r">> \o DecOfInt(I(inst))]
        [] x = 57 ->
             [s EXCEPT !.opcode = <<"p","s","q","_","l","u">>,
                       !.operands = <<"p">> \o DecOfInt(PPCGETD(inst)) \o <<","," ">> \o DecOfInt(SEX12(inst[2] % 4096)) \o <<"(","r">> \o DecOfInt(PPCGETA(inst)) \o <<")",","," ">> \o DecOfInt(W(inst)) \o <<","," ","q","r">> \o DecOfInt(I(inst))]
        [] x = 60 ->
             [s EXCEPT !.opcode = <<"p","s","q","_","s","t">>,
                       !.operands = <<"p">> \o DecOfInt(PPCGETD(inst)) \o <<","," ">> \o DecOfInt(SEX12(inst[2] % 4096)) \o <<"(","r">> \o DecOfInt(PPCGETA(inst)) \o <<")",","," ">> \o DecOfInt(W(inst)) \o <<","," ","q","r">> \o DecOfInt(I(inst))]
        [] x = 61 ->
             [s EXCEPT !.opcode = <<"p","s","q","_","s","t","u">>,
                       !.operands = <<"p">> \o DecOfInt(PPCGETD(inst)) \o <<","," ">> \o DecOfInt(SEX12(inst[2] % 4096)) \o <<"(","r">> \o DecOfInt(PPCGETA(inst)) \o <<")",","," ">> \o DecOfInt(W(inst)) \o <<","," ","q","r">> \o DecOfInt(I(inst))]
        [] OTHER -> s

\* Primary opcode 63 with bit 5 clear: the switch over PPCGETIDX2.
doDisassembly63b(inVal) ==
  LET x == PPCGETIDX2(inVal)
  IN  CASE x = 0 -> << "fcmp", inVal, <<"u">> >>
        [] x = 12 -> << "fdabc", inVal, <<"r","s","p">>, 1, 0 >>
        [] x = 14 -> << "fdabc", inVal, <<"c","t","i","w">>, 1, 0 >>
        [] x = 15 -> << "fdabc", inVal, <<"c","t","i","w","z">>, 1, 0 >>
        [] x = 32 -> << "fcmp", inVal, <<"o">> >>
        [] x = 38 -> << "mtfsb", inVal, 1 >>
        [] x = 40 -> << "fdabc", inVal, <<"n","e","g">>, 9, 0 >>
        [] x = 64 -> << "mcrf", inVal, <<"s">> >>
        [] x = 70 -> << "mtfsb", inVal, 0 >>
        [] x = 72 -> << "fmr", inVal >>
        [] x = 134 ->
             IF IsZero(And32(inVal, U32(<<"0","0","6","f","0","8","0","0">>)))
             THEN << "set", <<"m","t","f","s","f","i">> \o rcsel[Bit0(inVal) + 1],
                     <<"c","r">> \o DecOfInt(PPCGETCRD(inVal)) \o <<",">>
                       \o DecOfInt(inVal[2] \div 4096) >>
             ELSE << "ill", inVal >>
        [] x = 136 -> << "fdabc", inVal, <<"n","a","b","s">>, 9, 0 >>
        [] x = 264 -> << "fdabc", inVal, <<"a","b","s">>, 9, 0 >>
        [] x = 583 ->
             IF ~IsZero(And32(inVal, U32(<<"0","0","1","f","f","8","0","0">>))) THEN << "ill", inVal >>
             ELSE << "dab", inVal, <<"m","f","f","s">>, 4, 0, 0, -1, 0 >>
        [] x = 711 ->
             IF IsZero(And32(inVal, U32(<<"0","2","0","1","0","0","0","0">>)))
             THEN << "set", <<"m","t","f","s","f">> \o rcsel[Bit0(inVal) + 1],
                     <<"0","x">> \o HexOfNat((inVal[1] \div 2) % 256) \o <<","," ","f">>
                       \o DecOfInt(PPCGETB(inVal)) >>
             ELSE << "ill", inVal >>
        [] x = 814 -> << "fdabc", inVal, <<"f","c","t","i","d">>, 9, PPCF_SIXTY_FOUR >>
        [] x = 815 -> << "fdabc", inVal, <<"f","c","t","i","d","z">>, 9, PPCF_SIXTY_FOUR >>
        [] x = 846 -> << "fdabc", inVal, <<"f","c","f","i","d">>, 9, PPCF_SIXTY_FOUR >>
        [] OTHER -> << "ill", inVal >>

\* Variant of ResetScratch that leaves m_operands and m_flags as they are.
ResetScratch_stale(s) ==
  [s EXCEPT !.opcode = <<>>, !.type = PPCINSTR_OTHER, !.threw = FALSE]

\* The four assignments at the head of doDisassembly; a call starts with no
\* exception raised.
ResetScratch(s) ==
  [s EXCEPT !.opcode = <<>>, !.operands = <<>>,
            !.type = PPCINSTR_OTHER, !.flags = {}, !.threw = FALSE]

\* The switch over the primary opcode in doDisassembly: the handler call of
\* each case, as the name of the handler and its arguments.  "opcode" and
\* "set" stand for the cases that assign m_opcode (and m_operands) in place,
\* "imm" for the cases that assign m_opcode and take m_operands from imm().
doDisassemblySwitch(inVal) ==
  LET x == PPCGETIDX(inVal)
  IN  CASE x = 2 -> << "trapi", inVal, PPCF_SIXTY_FOUR >>
        [] x = 3 -> << "trapi", inVal, 0 >>
        [] x = 4 -> << "ps", inVal >>
        [] x \in {56, 57, 60, 61} -> << "ps_mem", inVal >>
        [] x = 7 -> << "imm", inVal, <<"m","u","l","l","i">> >>
        [] x = 8 -> << "imm", inVal, <<"s","u","b","f","i","c">> >>
        [] x = 10 -> << "cmpi", inVal, 1 >>
        [] x = 11 -> << "cmpi", inVal, 0 >>
        [] x = 12 -> << "addi", inVal, <<"i","c">> >>
        [] x = 13 -> << "addi", inVal, <<"i","c",".">> >>
        [] x = 14 -> << "addi", inVal, <<"i">> >>
        [] x = 15 -> << "addi", inVal, <<"i","s">> >>
        [] x = 16 -> << "bc", inVal >>
        [] x = 17 -> IF inVal[1] % 1024 = 0 /\ inVal[2] = 2
                     THEN << "opcode", <<"s","c">> >>
                     ELSE << "ill", inVal >>
        [] x = 18 -> << "bli", inVal >>
        [] x = 19 -> doDisassembly19(inVal)
        [] x = 20 -> << "rlw", inVal, <<"i","m","i">>, 0 >>
        [] x = 21 -> << "rlw", inVal, <<"i","n","m">>, 0 >>
        [] x = 23 -> << "rlw", inVal, <<"n","m">>, 1 >>
        [] x = 24 -> IF inVal[1] % 1024 # 0 \/ inVal[2] # 0
                     THEN << "ori", inVal, <<"o","r","i">> >>
                     ELSE << "opcode", <<"n","o","p">> >>
        [] x = 25 -> << "ori", inVal, <<"o","r","i","s">> >>
        [] x = 26 -> << "ori", inVal, <<"x","o","r","i">> >>
        [] x = 27 -> << "ori", inVal, <<"x","o","r","i","s">> >>
        [] x = 28 -> << "ori", inVal, <<"a","n","d","i",".">> >>
        [] x = 29 -> << "ori", inVal, <<"a","n","d","i","s",".">> >>
        [] x = 30 -> doDisassembly30(inVal)
        [] x = 31 -> doDisassembly31(inVal)
        [] x \in 32..47 -> << "ldst", inVal, ldstnames[x - 32 + 1], <<"r">>, 0 >>
        [] x \in 48..55 -> << "ldst", inVal, ldstnames[x - 32 + 1], <<"f">>, 0 >>
        [] x = 58 -> CASE Low2(inVal) = 0 -> << "ldst", ClearLow2(inVal), <<"l","d">>, <<"r">>, PPCF_SIXTY_FOUR >>
                       [] Low2(inVal) = 1 -> << "ldst", ClearLow2(inVal), <<"l","d","u">>, <<"r">>, PPCF_SIXTY_FOUR >>
                       [] Low2(inVal) = 2 -> << "ldst", ClearLow2(inVal), <<"l","w","a">>, <<"r">>, PPCF_SIXTY_FOUR >>
                       [] OTHER -> << "ill", inVal >>
        [] x = 59 -> doDisassembly59(inVal)
        [] x = 62 -> CASE Low2(inVal) = 0 -> << "ldst", ClearLow2(inVal), <<"s","t","d">>, <<"r">>, PPCF_SIXTY_FOUR >>
                       [] Low2(inVal) = 1 -> << "ldst", ClearLow2(inVal), <<"s","t","d","u">>, <<"r">>, PPCF_SIXTY_FOUR >>
                       [] OTHER -> << "ill", inVal >>
        [] x = 63 -> IF BitAnd(inVal[2], 32) # 0
                     THEN doDisassembly63a(inVal)
                     ELSE doDisassembly63b(inVal)
        [] OTHER -> << "ill", inVal >>

\* The handler call c made on the scratch state s with m_iaddr = iaddr.
Invoke(s, iaddr, c) ==
  CASE c[1] = "ill" -> ill(s, c[2])
    [] c[1] = "opcode" -> [s EXCEPT !.opcode = c[2]]
    [] c[1] = "set" -> [s EXCEPT !.opcode = c[2], !.operands = c[3]]
    [] c[1] = "imm" -> [imm(s, c[2], 0) EXCEPT !.opcode = c[3],
                                               !.operands = imm_text(c[2], 0, 0)]
    [] c[1] = "trapi" -> trapi(s, c[2], c[3])
    [] c[1] = "ps" -> ps(s, c[2])
    [] c[1] = "ps_mem" -> ps_mem(s, c[2])
    [] c[1] = "cmpi" -> cmpi(s, c[2], c[3])
    [] c[1] = "addi" -> addi(s, c[2], c[3])
    [] c[1] = "bc" -> bc(s, iaddr, c[2])
    [] c[1] = "bli" -> bli(s, iaddr, c[2])
    [] c[1] = "rlw" -> rlw(s, c[2], c[3], c[4])
    [] c[1] = "ori" -> ori(s, c[2], c[3])
    [] c[1] = "ldst" -> ldst(s, c[2], c[3], c[4], c[5])
    [] c[1] = "mcrf" -> mcrf(s, c[2], c[3])
    [] c[1] = "branch" -> branch(s, c[2], c[3], c[4], c[5])
    [] c[1] = "crop" -> crop(s, c[2], c[3], c[4])
    [] c[1] = "nooper" -> nooper(s, c[2], c[3], c[4])
    [] c[1] = "rld" -> rld(s, c[2], c[3], c[4])
    [] c[1] = "cmp" -> cmp(s, c[2])
    [] c[1] = "trap" -> trap(s, c[2], c[3])
    [] c[1] = "dab" -> dab(s, c[2], c[3], c[4], c[5], c[6], c[7], c[8])
    [] c[1] = "rrn" -> rrn(s, c[2], c[3], c[4], c[5], c[6], c[7])
    [] c[1] = "mtcr" -> mtcr(s, c[2])
    [] c[1] = "msr" -> msr(s, c[2], c[3])
    [] c[1] = "mspr" -> mspr(s, c[2], c[3])
    [] c[1] = "mtb" -> mtb(s, c[2])
    [] c[1] = "sradi" -> sradi(s, c[2])
    [] c[1] = "fdabc" -> fdabc(s, c[2], c[3], c[4], c[5])
    [] c[1] = "fdab" -> fdab(s, c[2], c[3], c[4])
    [] c[1] = "fmr" -> fmr(s, c[2])
    [] c[1] = "fcmp" -> fcmp(s, c[2], c[3])
    [] c[1] = "mtfsb" -> mtfsb(s, c[2], c[3])

\* doDisassembly with bigEndian = true: the scratch state is reset and the
\* handler the switch selects is run.  s is the scratch state left by the
\* previous call, iaddr is m_iaddr and inVal is m_instr.
doDisassembly(s, iaddr, inVal) ==
  Invoke(ResetScratch(s), iaddr, doDisassemblySwitch(inVal))

\* The value disassemble returns when doDisassembly does not throw:
\* `${m_opcode}\t${m_operands}`.
InstrText(s) == s.opcode \o <<"\t">> \o s.operands

\* =========================================================== state machine
VARIABLES
  \* GekkoDisassembler.js, module level
  m_instr, m_iaddr, m_opcode, m_operands, m_type, m_flags, m_sreg, m_displacement,
  \* disassemble: the pending call and its outcome
  call, result, decodes, ref,
  \* HelperRotateMask: arguments drawn and the value returned
  maskArgs, maskResult,
  \* relProcessor.js, module level; outputFile is the text of the file on disk
  relBuffer, relMap, frameworkMap, branchDestinations, outputFile,
  \* the invocations of processRel still to come
  queue,
  \* relProcessor.js, processTextSection and populateBranchDestinations
  pc, sectionAddr, sectionLength, obj, currRelFnOffset, offsetInSection,
  startingNewFn, leaveBlankLine, stream,
  \* observation of a run: its request, the offsets the analyzer visited,
  \* whether the emission pass has read the label table, the writes made to
  \* the stream, and the requests and outputs of the runs that are over
  request, analysed, tableRead, written, history

decoderVars == << m_instr, m_iaddr, m_opcode, m_operands, m_type, m_flags, m_sreg, m_displacement >>
callVars == << call, result, decodes, ref >>
maskVars == << maskArgs, maskResult >>
relVars == << relBuffer, relMap, frameworkMap, branchDestinations, outputFile >>
passVars == << queue, pc, sectionAddr, sectionLength, obj, currRelFnOffset, offsetInSection,
               startingNewFn, leaveBlankLine, stream >>
runVars == << request, analysed, tableRead, written, history >>
vars == << decoderVars, callVars, maskVars, relVars, passVars, runVars >>

None == << "none" >>
EmptyObj == [k \in {} |-> {}]

\* The scratch record of the decoder variables.
Scratch ==
  [ opcode |-> m_opcode, operands |-> m_operands, type |-> m_type, flags |-> m_flags,
    sreg |-> m_sreg, displacement |-> m_displacement, threw |-> FALSE ]

\* disassemble(opcode, instrAddr): sets m_instr and m_iaddr and runs doDisassembly
\* on the scratch state the previous call left.
disassemble(opcode, instrAddr) == doDisassembly(Scratch, instrAddr, opcode)

\* The decoder variables after disassemble(opcode, instrAddr) left scratch s.
SetDecoder(opcode, instrAddr, s) ==
  /\ m_instr' = opcode
  /\ m_iaddr' = instrAddr
  /\ m_opcode' = s.opcode
  /\ m_operands' = s.operands
  /\ m_type' = s.type
  /\ m_flags' = s.flags
  /\ m_sreg' = s.sreg
  /\ m_displacement' = s.displacement

\* What a caller can observe of one decode.
Outcome(s) ==
  [ opcode |-> s.opcode, operands |-> s.operands, type |-> s.type, flags |-> s.flags,
    threw |-> s.threw ]

DecoderInit ==
  /\ m_instr = None
  /\ m_iaddr = None
  /\ m_opcode = ScratchInit.opcode
  /\ m_operands = ScratchInit.operands
  /\ m_type = ScratchInit.type
  /\ m_flags = ScratchInit.flags
  /\ m_sreg = ScratchInit.sreg
  /\ m_displacement = ScratchInit.displacement

CallIdle ==
  /\ call = None
  /\ result = Outcome(ScratchInit)
  /\ decodes = 0
  /\ ref = None

MaskIdle ==
  /\ maskArgs = None
  /\ maskResult = None

\* relProcessor.js as loaded, no invocation made.
ModuleLoaded ==
  /\ relBuffer = << >>
  /\ relMap = EmptyObj
  /\ frameworkMap = EmptyObj
  /\ branchDestinations = EmptyObj
  /\ pc = "idle"
  /\ sectionAddr = << 0, 0 >>
  /\ sectionLength = 0
  /\ obj = EmptyObj
  /\ currRelFnOffset = 0
  /\ offsetInSection = 0
  /\ startingNewFn = FALSE
  /\ leaveBlankLine = FALSE
  /\ stream = "none"
  /\ request = None
  /\ analysed = {}
  /\ tableRead = FALSE
  /\ written = << >>
  /\ history = << >>

RelIdle ==
  /\ ModuleLoaded
  /\ outputFile = None
  /\ queue = << >>

\* ------------------------------------------------ decoder specifications
\* Halves of the words drawn for a single decode: every primary opcode with a
\* few register fields, and low halves that select the extended opcodes.
DecodeHi == { idx * 1024 + d * 32 + a : idx \in 0..63, d \in {0, 4, 12, 20, 31}, a \in {0, 6} }
DecodeLo == { 0, 1, 2, 4, 8, 32, 33, 66, 136, 386, 1056, 2048, 2114, 32768, 65532, 65535 }
DecodeAddrs == { U32(<<"8","0","0","0","1","0","0","0">>), U32(<<"0","0","0","0","0","0","0","0">>) }

InitDecode ==
  /\ DecoderInit
  /\ call \in { << << hi, lo >>, a >> : hi \in DecodeHi, lo \in DecodeLo, a \in DecodeAddrs }
  /\ result = Outcome(ScratchInit)
  /\ decodes = 0
  /\ ref = None
  /\ MaskIdle
  /\ RelIdle

\* The decoder variables and the outcome after a call that left scratch s.
Decoded(opcode, instrAddr, s) ==
  /\ SetDecoder(opcode, instrAddr, s)
  /\ result' = Outcome(s)

\* The pending call disassemble(call[1], call[2]) is made.
Disassemble ==
  /\ call # None
  /\ Decoded(call[1], call[2], disassemble(call[1], call[2]))
  /\ decodes' = decodes + 1
  /\ call' = None
  /\ UNCHANGED << ref, maskVars, relVars, passVars, runVars >>

NextDecode == Disassemble

SpecDecode == InitDecode /\ [][NextDecode]_vars

\* Words decoded one after the other in the sequence specification.
SeqWords ==
  { U32(<<"0","0","0","0","0","0","0","0">>), U32(<<"6","0","0","0","0","0","0","0">>), U32(<<"4","e","8","0","0","0","2","0">>), U32(<<"4","8","0","0","0","0","0","b">>),
    U32(<<"4","8","0","0","0","0","0","4">>), U32(<<"4","0","8","6","0","0","0","4">>), U32(<<"4","0","8","2","f","f","f","c">>), U32(<<"4","2","0","0","0","0","0","8">>),
    U32(<<"4","c","0","0","0","1","8","2">>), U32(<<"4","c","2","2","1","a","0","2">>), U32(<<"0","c","6","4","0","0","0","5">>), U32(<<"0","b","e","3","0","0","0","1">>),
    U32(<<"2","c","8","3","0","0","0","7">>), U32(<<"7","c","0","3","2","0","0","0">>), U32(<<"7","c","8","8","0","2","a","6">>), U32(<<"7","c","6","c","4","2","e","6">>),
    U32(<<"7","d","8","f","f","1","2","0">>), U32(<<"f","c","2","0","1","0","2","a">>), U32(<<"f","c","0","1","1","0","0","0">>), U32(<<"1","0","6","1","1","0","1","4">>),
    U32(<<"1","0","0","1","1","0","4","0">>), U32(<<"8","0","6","1","f","f","f","8">>), U32(<<"5","4","6","3","1","0","3","a">>), U32(<<"7","c","6","3","2","2","1","4">>),
    U32(<<"4","4","0","0","0","0","0","2">>), U32(<<"7","f","e","0","0","0","0","8">>) }
SeqAddrs == { U32(<<"8","0","0","0","1","0","0","0">>), U32(<<"8","0","0","0","2","0","0","0">>) }

InitSeq ==
  /\ DecoderInit
  /\ CallIdle
  /\ MaskIdle
  /\ RelIdle

\* The outcome of the first call of the behaviour is remembered in ref, with
\* whether a call for another word or address has been made since.
Referred(w, a, s) ==
  ref' = IF ref = None THEN << w, a, Outcome(s), FALSE >>
         ELSE [ref EXCEPT ![4] = @ \/ w # ref[1] \/ a # ref[2]]

DecodedNext(w, a, s) ==
  /\ Decoded(w, a, s)
  /\ Referred(w, a, s)

\* disassemble(w, a) is called on whatever the earlier calls left.
DisassembleNext ==
  /\ decodes < MaxDecodes
  /\ \E w \in SeqWords, a \in SeqAddrs : DecodedNext(w, a, disassemble(w, a))
  /\ decodes' = decodes + 1
  /\ UNCHANGED << call, maskVars, relVars, passVars, runVars >>

NextSeq == DisassembleNext

SpecSeq == InitSeq /\ [][NextSeq]_vars

\* ---------------------------------------------- rotate-mask specification
InitMask ==
  /\ DecoderInit
  /\ CallIdle
  /\ maskArgs \in { << r, mb, me >> : r \in 0..31, mb \in 0..31, me \in 0..31 }
  /\ maskResult = None
  /\ RelIdle

\* HelperRotateMask(r, mb, me) is evaluated; the result is kept modulo 2^32.
ApplyRotateMask ==
  /\ maskArgs # None
  /\ maskResult = None
  /\ maskResult' = BitsToNum(HelperRotateMask(maskArgs[1], maskArgs[2], maskArgs[3]))
  /\ UNCHANGED << maskArgs, decoderVars, callVars, relVars, passVars, runVars >>

NextMask == ApplyRotateMask

SpecMask == InitMask /\ [][NextMask]_vars

\* ========================================================== relProcessor.js
\* src/src/relProcessor.js
clearMsb == U32(<<"7","f","f","f","f","f","f","f">>)

labelNames ==
  << <<"A","P","P","L","E">>, <<"B","A","N","A","N","A">>, <<"C","H","O","C","O","L","A","T","E">>, <<"D","O","N","U","T">>, <<"E","G","G","P","L","A","N","T">>, <<"F","L","A","M","I","N","G","O">>,
     <<"G","R","A","P","E","F","R","U","I","T">>, <<"H","A","R","P","O","O","N">>, <<"I","G","L","O","O">>, <<"J","E","L","L","Y","F","I","S","H">>, <<"K","A","Y","A","K">>, <<"L","O","B","S","T","E","R">>,
     <<"M","I","L","K">>, <<"N","O","O","D","L","E">>, <<"O","R","A","N","G","E">>, <<"P","A","P","E","R">>, <<"Q","U","A","R","T","Z">>, <<"R","A","S","P","B","E","R","R","Y">>,
     <<"S","A","N","D","W","I","C","H">>, <<"T","A","N","G","E","R","I","N","E">>, <<"U","N","I","C","O","R","N">>, <<"V","I","O","L","I","N">>, <<"W","A","T","E","R">>, <<"X","R","A","Y">>,
     <<"Y","O","Y","O">>, <<"Z","E","B","R","A">> >>

EQUALS_DIVIDER == <<"=","=","=","=","=","=","=","=","=","=","=","=","=","=","=","=","=","=","=","=","=","=","=","=","=","=","=","=","=","=","=","=","=","=","=","=","=","=","=","=","=","=","=","=","=","=","=","=","=","=","\n">>

FINISH_FUNCTION == <<"F","I","N","I","S","H","_","F","U","N","C","T","I","O","N">>

\* relNameIn of processRel.
relName == <<"d","_","a","_","x">>

\* obj[k] is defined (and truthy: every value stored is a name or an object).
Has(o, k) == k \in DOMAIN o

Put(o, k, v) == [x \in DOMAIN o \cup {k} |-> IF x = k THEN v ELSE o[x]]

\* a - b on numbers.
SubNum(a, b) ==
  LET lo == a[2] - b[2]
  IN  << (a[1] - b[1]) + (lo \div TwoTo16), lo % TwoTo16 >>

\* The length of the run of white space of t that starts at position p.
RECURSIVE SpaceRun(_, _)
SpaceRun(t, p) ==
  IF p <= Len(t) /\ IsSpace(t[p]) THEN 1 + SpaceRun(t, p + 1) ELSE 0

\* instr.match(/^(b[\S]*)\s*->0x([0-9a-f]{8})/): group 1 is the longest prefix
\* of non-space characters starting with b after which white space, "->0x" and
\* eight hexadecimal digits follow.
RegexEnd(t, j) == j + SpaceRun(t, j + 1)
RegexFits(t, j) ==
  LET e == RegexEnd(t, j)
  IN  /\ \A p \in 1..j : ~IsSpace(t[p])
      /\ Len(t) >= e + 12
      /\ SubSeq(t, e + 1, e + 4) = <<"-",">","0","x">>
      /\ \A q \in (e + 5)..(e + 12) : IsHexDigit(t[q])
match(t) ==
  LET J == { j \in 1..Len(t) : t[1] = "b" /\ RegexFits(t, j) }
  IN  IF J = {} THEN [ok |-> FALSE, m1 |-> << >>, m2 |-> << >>]
      ELSE LET j == CHOOSE x \in J : \A y \in J : y <= x
               e == RegexEnd(t, j)
           IN  [ok |-> TRUE, m1 |-> SubSeq(t, 1, j), m2 |-> SubSeq(t, e + 5, e + 12)]

\* /^blr\s$/.test(instr)
IsBlrLine(t) == Len(t) = 4 /\ SubSeq(t, 1, 3) = <<"b","l","r">> /\ IsSpace(t[4])

\* ---- populateBranchDestinations: the callback
\* Variant of populateCallback that sets reachedFromBelow for a branch at a
\* lower address than its destination.
populateCallback_fromAbove(o, curr, instr, off, rmap, saddr) ==
  LET curr1 == IF Has(rmap, off) THEN off ELSE curr
      o1 == IF Has(rmap, off) THEN Put(o, off, EmptyObj) ELSE o
      m == match(instr)
  IN  IF ~m.ok \/ m.m1 = <<"b","l">>
      THEN [obj |-> o1, currRelFnOffset |-> curr1, threw |-> FALSE]
      ELSE IF ~Has(o1, curr1)
      THEN [obj |-> o1, currRelFnOffset |-> curr1, threw |-> TRUE]
      ELSE LET fnObj == o1[curr1]
               bDestNum == NumberOfHex8(m.m2)
               fnObj1 == IF Has(fnObj, bDestNum) THEN fnObj
                         ELSE Put(fnObj, bDestNum, [reachedFromBelow |-> FALSE])
               currAddr == AddInt(saddr, off)
               fnObj2 == IF ~fnObj1[bDestNum].reachedFromBelow /\ NumGreater(bDestNum, currAddr)
                         THEN Put(fnObj1, bDestNum, [reachedFromBelow |-> TRUE])
                         ELSE fnObj1
           IN  [obj |-> Put(o1, curr1, fnObj2), currRelFnOffset |-> curr1, threw |-> FALSE]

\* Variant of populateCallback that records a branch in the scope that was
\* open before the instruction.
populateCallback_oldScope(o, curr, instr, off, rmap, saddr) ==
  LET curr1 == IF Has(rmap, off) THEN off ELSE curr
      o1 == IF Has(rmap, off) THEN Put(o, off, EmptyObj) ELSE o
      m == match(instr)
  IN  IF ~m.ok \/ m.m1 = <<"b","l">>
      THEN [obj |-> o1, currRelFnOffset |-> curr1, threw |-> FALSE]
      ELSE IF ~Has(o1, curr)
      THEN [obj |-> o1, currRelFnOffset |-> curr1, threw |-> TRUE]
      ELSE LET fnObj == o1[curr]
               bDestNum == NumberOfHex8(m.m2)
               fnObj1 == IF Has(fnObj, bDestNum) THEN fnObj
                         ELSE Put(fnObj, bDestNum, [reachedFromBelow |-> FALSE])
               currAddr == AddInt(saddr, off)
               fnObj2 == IF ~fnObj1[bDestNum].reachedFromBelow /\ NumGreater(currAddr, bDestNum)
                         THEN Put(fnObj1, bDestNum, [reachedFromBelow |-> TRUE])
                         ELSE fnObj1
           IN  [obj |-> Put(o1, curr, fnObj2), currRelFnOffset |-> curr1, threw |-> FALSE]

\* The result is the table obj, the scope currRelFnOffset and whether the
\* callback threw (obj[currRelFnOffset] is undefined when no scope is open).
populateCallback(o, curr, instr, off, rmap, saddr) ==
  LET curr1 == IF Has(rmap, off) THEN off ELSE curr
      o1 == IF Has(rmap, off) THEN Put(o, off, EmptyObj) ELSE o
      m == match(instr)
  IN  IF ~m.ok \/ m.m1 = <<"b","l">>
      THEN [obj |-> o1, currRelFnOffset |-> curr1, threw |-> FALSE]
      ELSE IF ~Has(o1, curr1)
      THEN [obj |-> o1, currRelFnOffset |-> curr1, threw |-> TRUE]
      ELSE LET fnObj == o1[curr1]
               bDestNum == NumberOfHex8(m.m2)
               fnObj1 == IF Has(fnObj, bDestNum) THEN fnObj
                         ELSE Put(fnObj, bDestNum, [reachedFromBelow |-> FALSE])
               currAddr == AddInt(saddr, off)
               fnObj2 == IF ~fnObj1[bDestNum].reachedFromBelow /\ NumGreater(currAddr, bDestNum)
                         THEN Put(fnObj1, bDestNum, [reachedFromBelow |-> TRUE])
                         ELSE fnObj1
           IN  [obj |-> Put(o1, curr1, fnObj2), currRelFnOffset |-> curr1, threw |-> FALSE]

\* ---- populateBranchDestinations: the naming of the destinations
\* Object.keys of a table keyed by addresses: ascending numeric order.
RECURSIVE KeysOf(_)
KeysOf(K) ==
  IF K = {} THEN << >>
  ELSE LET k == CHOOSE x \in K : \A y \in K : ~NumGreater(x, y)
       IN  << k >> \o KeysOf(K \ {k})

\* Object.keys(fnObj).sort() compares the keys as text; its last element.
LastSorted(K) ==
  CHOOSE k \in K : \A j \in K \ {k} : StrLess(DecOfNum(j), DecOfNum(k))

RECURSIVE Repeat(_, _)
Repeat(c, n) == IF n <= 0 THEN << >> ELSE << c >> \o Repeat(c, n - 1)

Letters == <<"a","b","c","d","e","f","g","h","i","j","k","l","m","n","o","p","q","r","s","t","u","v","w","x","y","z">>

\* The name given at labelIndex.
LabelName(labelIndex) ==
  IF labelIndex < 26 THEN labelNames[labelIndex + 1]
  ELSE Repeat(Letters[(labelIndex % 26) + 1], labelIndex \div 26)

\* The key of fnObj that is considered for FINISH_FUNCTION.
FinishCandidate(fnObj) == LastSorted(DOMAIN fnObj)

resultObj(fnObj) ==
  LET keys == KeysOf(DOMAIN fnObj)
      addrForFinishFn ==
        IF DOMAIN fnObj # {} /\ ~fnObj[FinishCandidate(fnObj)].reachedFromBelow
        THEN FinishCandidate(fnObj) ELSE None
  IN  [ bDest \in DOMAIN fnObj |->
          LET labelIndex == (CHOOSE i \in 1..Len(keys) : keys[i] = bDest) - 1
          IN  IF bDest = addrForFinishFn THEN FINISH_FUNCTION ELSE LabelName(labelIndex) ]

\* ---- processTextSection: the callback of the emission pass
\* (0x80000000 | sectionAddr) + offsetInSection, as sprintf's %08x prints it.
HeaderAddress(saddr, off) ==
  LET h == saddr[1] % TwoTo16
  IN  AddInt(<< IF h >= 32768 THEN h ELSE h + 32768, saddr[2] >>, off)

\* (blTarget - sectionAddr) & clearMsb
RelOffsetOf(blTarget, saddr) ==
  LET d == ToUint32(SubNum(blTarget, saddr))
  IN  << d[1] % 32768, d[2] >>

\* Variant of callAnnotation that asks the module-local map before the global map.
callAnnotation_localFirst(m, rmap, fmap, saddr) ==
  LET blTarget == NumberOfHex8(m.m2)
      a == RelOffsetOf(blTarget, saddr)
      key == a[1] * TwoTo16 + a[2]
  IN  IF Has(rmap, key)
      THEN <<" ","_","_","_"," ">> \o m.m2 \o <<" ">> \o <<"0","x">> \o FmtX(a) \o <<" ">> \o rmap[key] \o <<" ","_","_","_">>
      ELSE IF Has(fmap, blTarget)
      THEN <<" ","_","_","_"," ">> \o m.m2 \o <<" ">> \o fmap[blTarget] \o <<" ","_","_","_">>
      ELSE <<" ","U","N","R","E","C","O","G","N","I","Z","E","D"," ","B","R","A","N","C","H">>

\* The text appended to a bl line.
callAnnotation(m, rmap, fmap, saddr) ==
  LET blTarget == NumberOfHex8(m.m2)
      a == RelOffsetOf(blTarget, saddr)
      key == a[1] * TwoTo16 + a[2]
  IN  IF Has(fmap, blTarget)
      THEN <<" ","_","_","_"," ">> \o m.m2 \o <<" ">> \o fmap[blTarget] \o <<" ","_","_","_">>
      ELSE IF Has(rmap, key)
      THEN <<" ","_","_","_"," ">> \o m.m2 \o <<" ">> \o <<"0","x">> \o FmtX(a) \o <<" ">> \o rmap[key] \o <<" ","_","_","_">>
      ELSE <<" ","U","N","R","E","C","O","G","N","I","Z","E","D"," ","B","R","A","N","C","H">>

\* The text appended to the line of any other branch with a target.
targetAnnotation(m, scope) ==
  LET targetAddr == NumberOfHex8(m.m2)
  IN  IF Has(scope, targetAddr)
      THEN <<" ","=","=","=",">"," ">> \o scope[targetAddr] \o <<"_">> \o m.m2
      ELSE <<" ","U","N","R","E","C","O","G","N","I","Z","E","D"," ","B","R","A","N","C","H"," ","T","A","R","G","E","T">>

\* One write to the stream: its text and what it is.
Wr(kind, off, text) == [kind |-> kind, offset |-> off, text |-> text]

RECURSIVE TextOf(_)
TextOf(ws) == IF ws = << >> THEN << >> ELSE ws[1].text \o TextOf(Tail(ws))

\* Variant of emitCallback that, at a return, looks the next address up among
\* the destinations of the active scope.
emitCallback_destinationTest(instr, off, curr, snf, lbl, rmap, fmap, table, saddr) ==
  LET curr1 == IF Has(rmap, off) THEN off ELSE curr
      m == match(instr)
      hasScope == Has(table, curr1)
      isCall == m.ok /\ m.m1 = <<"b","l">>
      isTarget == m.ok /\ m.m1 # <<"b","l">> /\ m.m1 # <<"b","l","r">>
      instr1 == IF isCall THEN instr \o callAnnotation(m, rmap, fmap, saddr)
                ELSE IF isTarget /\ hasScope THEN instr \o targetAnnotation(m, table[curr1])
                ELSE instr
      fnName == IF Has(rmap, off) THEN rmap[off] ELSE <<"U","N","K","N","O","W","N"," ","F","U","N","C","T","I","O","N">>
      before ==
        IF lbl THEN << Wr("blank", off, <<"\n">>) >>
        ELSE IF snf
        THEN (IF off > 0 THEN << Wr("gap", off, <<"\n","\n">>) >> ELSE << >>)
             \o << Wr("divider", off, EQUALS_DIVIDER),
                   Wr("header", off, <<"0","x">> \o FmtX(IntToNum(off)) \o <<" ">>
                                      \o FmtX08(HeaderAddress(saddr, off)) \o <<" ">>
                                      \o fnName \o <<":","\n">>),
                   Wr("divider", off, EQUALS_DIVIDER) >>
        ELSE << >>
      lbl1 == FALSE
      snf1 == IF lbl THEN snf ELSE FALSE
      addr == AddInt(saddr, off)
      label == IF hasScope /\ Has(table[curr1], addr)
               THEN << Wr("label", off, table[curr1][addr] \o <<"_">> \o FmtX08(addr) \o <<":","\n">>) >>
               ELSE << >>
      line == << Wr("instr", off, <<"\t">> \o instr1 \o <<"\n">>) >>
      isB == m.ok /\ m.m1 = <<"b">>
      isBlr == ~isB /\ IsBlrLine(instr1)
  IN  IF isTarget /\ ~hasScope
      THEN [threw |-> TRUE, writes |-> << >>, currRelFnOffset |-> curr1,
            startingNewFn |-> snf, leaveBlankLine |-> lbl]
      ELSE IF ~hasScope
      THEN [threw |-> TRUE, writes |-> before, currRelFnOffset |-> curr1,
            startingNewFn |-> snf1, leaveBlankLine |-> lbl1]
      ELSE [threw |-> FALSE, writes |-> before \o label \o line, currRelFnOffset |-> curr1,
            startingNewFn |-> IF isBlr /\ Has(table[curr1], AddInt(saddr, off + 4)) THEN TRUE ELSE snf1,
            leaveBlankLine |-> IF isB \/ (isBlr /\ ~Has(table[curr1], AddInt(saddr, off + 4))) THEN TRUE ELSE lbl1]

\* Variant of emitCallback that schedules a blank line after every return.
emitCallback_bothFlags(instr, off, curr, snf, lbl, rmap, fmap, table, saddr) ==
  LET curr1 == IF Has(rmap, off) THEN off ELSE curr
      m == match(instr)
      hasScope == Has(table, curr1)
      isCall == m.ok /\ m.m1 = <<"b","l">>
      isTarget == m.ok /\ m.m1 # <<"b","l">> /\ m.m1 # <<"b","l","r">>
      instr1 == IF isCall THEN instr \o callAnnotation(m, rmap, fmap, saddr)
                ELSE IF isTarget /\ hasScope THEN instr \o targetAnnotation(m, table[curr1])
                ELSE instr
      fnName == IF Has(rmap, off) THEN rmap[off] ELSE <<"U","N","K","N","O","W","N"," ","F","U","N","C","T","I","O","N">>
      before ==
        IF lbl THEN << Wr("blank", off, <<"\n">>) >>
        ELSE IF snf
        THEN (IF off > 0 THEN << Wr("gap", off, <<"\n","\n">>) >> ELSE << >>)
             \o << Wr("divider", off, EQUALS_DIVIDER),
                   Wr("header", off, <<"0","x">> \o FmtX(IntToNum(off)) \o <<" ">>
                                      \o FmtX08(HeaderAddress(saddr, off)) \o <<" ">>
                                      \o fnName \o <<":","\n">>),
                   Wr("divider", off, EQUALS_DIVIDER) >>
        ELSE << >>
      lbl1 == FALSE
      snf1 == IF lbl THEN snf ELSE FALSE
      addr == AddInt(saddr, off)
      label == IF hasScope /\ Has(table[curr1], addr)
               THEN << Wr("label", off, table[curr1][addr] \o <<"_">> \o FmtX08(addr) \o <<":","\n">>) >>
               ELSE << >>
      line == << Wr("instr", off, <<"\t">> \o instr1 \o <<"\n">>) >>
      isB == m.ok /\ m.m1 = <<"b">>
      isBlr == ~isB /\ IsBlrLine(instr1)
  IN  IF isTarget /\ ~hasScope
      THEN [threw |-> TRUE, writes |-> << >>, currRelFnOffset |-> curr1,
            startingNewFn |-> snf, leaveBlankLine |-> lbl]
      ELSE IF ~hasScope
      THEN [threw |-> TRUE, writes |-> before, currRelFnOffset |-> curr1,
            startingNewFn |-> snf1, leaveBlankLine |-> lbl1]
      ELSE [threw |-> FALSE, writes |-> before \o label \o line, currRelFnOffset |-> curr1,
            startingNewFn |-> IF isBlr /\ Has(table, off + 4) THEN TRUE ELSE snf1,
            leaveBlankLine |-> IF isB \/ isBlr THEN TRUE ELSE lbl1]

\* Variant of emitCallback that writes one line break before a later header.
emitCallback_singleGap(instr, off, curr, snf, lbl, rmap, fmap, table, saddr) ==
  LET curr1 == IF Has(rmap, off) THEN off ELSE curr
      m == match(instr)
      hasScope == Has(table, curr1)
      isCall == m.ok /\ m.m1 = <<"b","l">>
      isTarget == m.ok /\ m.m1 # <<"b","l">> /\ m.m1 # <<"b","l","r">>
      instr1 == IF isCall THEN instr \o callAnnotation(m, rmap, fmap, saddr)
                ELSE IF isTarget /\ hasScope THEN instr \o targetAnnotation(m, table[curr1])
                ELSE instr
      fnName == IF Has(rmap, off) THEN rmap[off] ELSE <<"U","N","K","N","O","W","N"," ","F","U","N","C","T","I","O","N">>
      before ==
        IF lbl THEN << Wr("blank", off, <<"\n">>) >>
        ELSE IF snf
        THEN (IF off > 0 THEN << Wr("gap", off, <<"\n">>) >> ELSE << >>)
             \o << Wr("divider", off, EQUALS_DIVIDER),
                   Wr("header", off, <<"0","x">> \o FmtX(IntToNum(off)) \o <<" ">>
                                      \o FmtX08(HeaderAddress(saddr, off)) \o <<" ">>
                                      \o fnName \o <<":","\n">>),
                   Wr("divider", off, EQUALS_DIVIDER) >>
        ELSE << >>
      lbl1 == FALSE
      snf1 == IF lbl THEN snf ELSE FALSE
      addr == AddInt(saddr, off)
      label == IF hasScope /\ Has(table[curr1], addr)
               THEN << Wr("label", off, table[curr1][addr] \o <<"_">> \o FmtX08(addr) \o <<":","\n">>) >>
               ELSE << >>
      line == << Wr("instr", off, <<"\t">> \o instr1 \o <<"\n">>) >>
      isB == m.ok /\ m.m1 = <<"b">>
      isBlr == ~isB /\ IsBlrLine(instr1)
  IN  IF isTarget /\ ~hasScope
      THEN [threw |-> TRUE, writes |-> << >>, currRelFnOffset |-> curr1,
            startingNewFn |-> snf, leaveBlankLine |-> lbl]
      ELSE IF ~hasScope
      THEN [threw |-> TRUE, writes |-> before, currRelFnOffset |-> curr1,
            startingNewFn |-> snf1, leaveBlankLine |-> lbl1]
      ELSE [threw |-> FALSE, writes |-> before \o label \o line, currRelFnOffset |-> curr1,
            startingNewFn |-> IF isBlr /\ Has(table, off + 4) THEN TRUE ELSE snf1,
            leaveBlankLine |-> IF isB \/ (isBlr /\ ~Has(table, off + 4)) THEN TRUE ELSE lbl1]

\* The callback for the instruction text instr at offset off, with the locals
\* curr, snf (startingNewFn) and lbl (leaveBlankLine) of processTextSection.
\* The result carries the writes made and whether the callback threw.
emitCallback(instr, off, curr, snf, lbl, rmap, fmap, table, saddr) ==
  LET curr1 == IF Has(rmap, off) THEN off ELSE curr
      m == match(instr)
      hasScope == Has(table, curr1)
      isCall == m.ok /\ m.m1 = <<"b","l">>
      isTarget == m.ok /\ m.m1 # <<"b","l">> /\ m.m1 # <<"b","l","r">>
      instr1 == IF isCall THEN instr \o callAnnotation(m, rmap, fmap, saddr)
                ELSE IF isTarget /\ hasScope THEN instr \o targetAnnotation(m, table[curr1])
                ELSE instr
      fnName == IF Has(rmap, off) THEN rmap[off] ELSE <<"U","N","K","N","O","W","N"," ","F","U","N","C","T","I","O","N">>
      before ==
        IF lbl THEN << Wr("blank", off, <<"\n">>) >>
        ELSE IF snf
        THEN (IF off > 0 THEN << Wr("gap", off, <<"\n","\n">>) >> ELSE << >>)
             \o << Wr("divider", off, EQUALS_DIVIDER),
                   Wr("header", off, <<"0","x">> \o FmtX(IntToNum(off)) \o <<" ">>
                                      \o FmtX08(HeaderAddress(saddr, off)) \o <<" ">>
                                      \o fnName \o <<":","\n">>),
                   Wr("divider", off, EQUALS_DIVIDER) >>
        ELSE << >>
      lbl1 == FALSE
      snf1 == IF lbl THEN snf ELSE FALSE
      addr == AddInt(saddr, off)
      label == IF hasScope /\ Has(table[curr1], addr)
               THEN << Wr("label", off, table[curr1][addr] \o <<"_">> \o FmtX08(addr) \o <<":","\n">>) >>
               ELSE << >>
      line == << Wr("instr", off, <<"\t">> \o instr1 \o <<"\n">>) >>
      isB == m.ok /\ m.m1 = <<"b">>
      isBlr == ~isB /\ IsBlrLine(instr1)
  IN  IF isTarget /\ ~hasScope
      THEN [threw |-> TRUE, writes |-> << >>, currRelFnOffset |-> curr1,
            startingNewFn |-> snf, leaveBlankLine |-> lbl]
      ELSE IF ~hasScope
      THEN [threw |-> TRUE, writes |-> before, currRelFnOffset |-> curr1,
            startingNewFn |-> snf1, leaveBlankLine |-> lbl1]
      ELSE [threw |-> FALSE, writes |-> before \o label \o line, currRelFnOffset |-> curr1,
            startingNewFn |-> IF isBlr /\ Has(table, off + 4) THEN TRUE ELSE snf1,
            leaveBlankLine |-> IF isB \/ (isBlr /\ ~Has(table, off + 4)) THEN TRUE ELSE lbl1]

\* ------------------------------------------------------------ the actions
\* A run that is over is remembered with its request and the file it left.
Remember(status, text) ==
  history' = Append(history, [request |-> request, status |-> status, output |-> text])

\* processRel(...): the module variables are set from the arguments; when the
\* output file exists the user is asked whether to overwrite it; then
\* processTextSection starts.
processRel ==
  /\ pc \in {"idle", "done", "failed", "declined"}
  /\ queue # << >>
  /\ LET in == Head(queue)
     IN  /\ relBuffer' = in.relBufferIn
         /\ relMap' = in.relMapIn
         /\ frameworkMap' = in.frameworkMapIn
         /\ sectionAddr' = in.address
         /\ sectionLength' = in.length
         /\ request' = in
         /\ \E canWriteOutput \in (IF outputFile = None THEN {TRUE} ELSE BOOLEAN) :
              IF canWriteOutput
              THEN /\ pc' = "analyze"
                   /\ history' = history
              ELSE /\ pc' = "declined"
                   /\ history' = Append(history, [request |-> in, status |-> "declined",
                                                  output |-> outputFile])
  /\ queue' = Tail(queue)
  /\ obj' = EmptyObj
  /\ currRelFnOffset' = 0
  /\ offsetInSection' = 0
  /\ stream' = "none"
  /\ analysed' = {}
  /\ tableRead' = FALSE
  /\ written' = << >>
  /\ UNCHANGED << decoderVars, callVars, maskVars, branchDestinations, outputFile,
                  startingNewFn, leaveBlankLine >>

\* The word disassembleSection reads at offsetInSection; reading past the end
\* of the buffer throws.
InBuffer == (offsetInSection \div 4) + 1 <= Len(relBuffer)
WordAt == relBuffer[(offsetInSection \div 4) + 1]

\* The run stops with an exception.
Fails ==
  /\ pc' = "failed"
  /\ Remember("failed", outputFile')

\* The callback of populateBranchDestinations is run on the decode s of the
\* word at offsetInSection.
AnalyzeCallback(s) ==
  LET r == populateCallback(obj, currRelFnOffset, InstrText(s), offsetInSection,
                            relMap, sectionAddr)
  IN  /\ SetDecoder(WordAt, AddInt(sectionAddr, offsetInSection), s)
      /\ IF s.threw
         THEN /\ UNCHANGED << obj, currRelFnOffset, offsetInSection, analysed >>
              /\ Fails
         ELSE /\ obj' = r.obj
              /\ currRelFnOffset' = r.currRelFnOffset
              /\ analysed' = analysed \cup {offsetInSection}
              /\ IF r.threw
                 THEN /\ UNCHANGED offsetInSection
                      /\ Fails
                 ELSE /\ offsetInSection' = offsetInSection + 4
                      /\ UNCHANGED << pc, history >>

\* Variant of AnalyzeStep that passes over a word the buffer does not hold.
AnalyzeStep_unchecked ==
  /\ pc = "analyze"
  /\ offsetInSection < sectionLength
  /\ UNCHANGED << callVars, maskVars, relBuffer, relMap, frameworkMap, branchDestinations,
                  outputFile, queue, sectionAddr, sectionLength, startingNewFn,
                  leaveBlankLine, stream, request, tableRead, written >>
  /\ IF ~InBuffer
     THEN /\ UNCHANGED << decoderVars, obj, currRelFnOffset, analysed, pc, history >>
          /\ offsetInSection' = offsetInSection + 4
     ELSE AnalyzeCallback(disassemble(WordAt, AddInt(sectionAddr, offsetInSection)))

\* One iteration of disassembleSection for populateBranchDestinations.
AnalyzeStep ==
  /\ pc = "analyze"
  /\ offsetInSection < sectionLength
  /\ UNCHANGED << callVars, maskVars, relBuffer, relMap, frameworkMap, branchDestinations,
                  outputFile, queue, sectionAddr, sectionLength, startingNewFn,
                  leaveBlankLine, stream, request, tableRead, written >>
  /\ IF ~InBuffer
     THEN /\ UNCHANGED << decoderVars, obj, currRelFnOffset, offsetInSection, analysed >>
          /\ Fails
     ELSE AnalyzeCallback(disassemble(WordAt, AddInt(sectionAddr, offsetInSection)))

\* The end of populateBranchDestinations: every scope of obj gets its names
\* and replaces the entry of branchDestinations.
AssignLabels ==
  /\ pc = "analyze"
  /\ offsetInSection >= sectionLength
  /\ branchDestinations' =
       [ fnOffset \in DOMAIN branchDestinations \cup DOMAIN obj |->
           IF Has(obj, fnOffset) THEN resultObj(obj[fnOffset])
           ELSE branchDestinations[fnOffset] ]
  /\ pc' = "open"
  /\ UNCHANGED << decoderVars, callVars, maskVars, relBuffer, relMap, frameworkMap, outputFile,
                  queue, sectionAddr, sectionLength, obj, currRelFnOffset, offsetInSection,
                  startingNewFn, leaveBlankLine, stream, runVars >>

\* Variant of OpenOutput that opens the output before the analyzer pass has run.
OpenOutput_early ==
  /\ pc = "analyze"
  /\ offsetInSection = 0
  /\ outputFile' = relName \o <<".","r","e","l","\n","\n">>
  /\ stream' = "open"
  /\ written' = << Wr("title", 0, relName \o <<".","r","e","l","\n","\n">>) >>
  /\ startingNewFn' = TRUE
  /\ leaveBlankLine' = FALSE
  /\ currRelFnOffset' = 0
  /\ offsetInSection' = 0
  /\ pc' = "emit"
  /\ UNCHANGED << decoderVars, callVars, maskVars, relBuffer, relMap, frameworkMap,
                  branchDestinations, queue, sectionAddr, sectionLength, obj,
                  request, analysed, tableRead, history >>

\* processTextSection between the passes: the old file is removed, the stream
\* is opened and the title is written; the locals of the emission pass are set.
OpenOutput ==
  /\ pc = "open"
  /\ outputFile' = relName \o <<".","r","e","l","\n","\n">>
  /\ stream' = "open"
  /\ written' = << Wr("title", 0, relName \o <<".","r","e","l","\n","\n">>) >>
  /\ startingNewFn' = TRUE
  /\ leaveBlankLine' = FALSE
  /\ currRelFnOffset' = 0
  /\ offsetInSection' = 0
  /\ pc' = "emit"
  /\ UNCHANGED << decoderVars, callVars, maskVars, relBuffer, relMap, frameworkMap,
                  branchDestinations, queue, sectionAddr, sectionLength, obj,
                  request, analysed, tableRead, history >>

\* The callback of the emission pass is run on the decode s of the word at
\* offsetInSection.
EmitCallback(s) ==
  LET r == emitCallback(InstrText(s), offsetInSection, currRelFnOffset, startingNewFn,
                        leaveBlankLine, relMap, frameworkMap, branchDestinations,
                        sectionAddr)
  IN  /\ SetDecoder(WordAt, AddInt(sectionAddr, offsetInSection), s)
      /\ IF s.threw
         THEN /\ UNCHANGED << outputFile, currRelFnOffset, offsetInSection,
                              startingNewFn, leaveBlankLine, tableRead, written >>
              /\ Fails
         ELSE /\ outputFile' = outputFile \o TextOf(r.writes)
              /\ written' = written \o r.writes
              /\ tableRead' = TRUE
              /\ currRelFnOffset' = r.currRelFnOffset
              /\ startingNewFn' = r.startingNewFn
              /\ leaveBlankLine' = r.leaveBlankLine
              /\ IF r.threw
                 THEN /\ UNCHANGED offsetInSection
                      /\ Fails
                 ELSE /\ offsetInSection' = offsetInSection + 4
                      /\ UNCHANGED << pc, history >>

\* One iteration of disassembleSection for the emission pass.
EmitStep ==
  /\ pc = "emit"
  /\ offsetInSection < sectionLength
  /\ UNCHANGED << callVars, maskVars, relBuffer, relMap, frameworkMap, branchDestinations,
                  queue, sectionAddr, sectionLength, obj, stream, request, analysed >>
  /\ IF ~InBuffer
     THEN /\ UNCHANGED << decoderVars, outputFile, currRelFnOffset, offsetInSection,
                          startingNewFn, leaveBlankLine, tableRead, written >>
          /\ Fails
     ELSE EmitCallback(disassemble(WordAt, AddInt(sectionAddr, offsetInSection)))

\* stream.end(): processTextSection returns.
EndOutput ==
  /\ pc = "emit"
  /\ offsetInSection >= sectionLength
  /\ stream' = "ended"
  /\ pc' = "done"
  /\ Remember("done", outputFile)
  /\ UNCHANGED << decoderVars, callVars, maskVars, relVars, queue, sectionAddr, sectionLength,
                  obj, currRelFnOffset, offsetInSection, startingNewFn, leaveBlankLine,
                  request, analysed, tableRead, written >>

NextRel ==
  \/ processRel
  \/ AnalyzeStep
  \/ AssignLabels
  \/ OpenOutput
  \/ EmitStep
  \/ EndOutput

\* ---- one invocation, on every section of up to SectionWords words
RelWords ==
  { U32(<<"4","8","0","0","0","0","0","4">>), U32(<<"4","b","f","f","f","f","f","c">>), U32(<<"4","e","8","0","0","0","2","0">>), U32(<<"4","0","8","6","0","0","0","4">>),
    U32(<<"4","8","0","0","0","0","0","6">>), U32(<<"6","0","0","0","0","0","0","0">>) }

RECURSIVE SeqsOf(_, _)
SeqsOf(S, n) ==
  IF n = 0 THEN { << >> }
  ELSE { Append(t, x) : t \in SeqsOf(S, n - 1), x \in S }

Sections(S) == UNION { SeqsOf(S, n) : n \in 1..SectionWords }

\* The module-local maps for a section of n words: any set of offsets named.
FnName(off) == <<"f","n","_">> \o FmtX(IntToNum(off))
RelMaps(n) ==
  { [off \in K |-> FnName(off)] : K \in SUBSET { 4 * i : i \in 0..(n - 1) } }

TextAddress == U32(<<"8","0","0","0","1","0","0","0">>)

Request(buf, rmap) ==
  [ relBufferIn |-> buf, address |-> TextAddress, length |-> 4 * Len(buf),
    relMapIn |-> rmap, frameworkMapIn |-> EmptyObj ]

OldFile == <<"o","l","d","\n">>

InitRel ==
  /\ DecoderInit
  /\ CallIdle
  /\ MaskIdle
  /\ ModuleLoaded
  /\ outputFile \in { None, OldFile }
  /\ \E buf \in Sections(RelWords) :
       \E rmap \in RelMaps(Len(buf)) :
         queue = << Request(buf, rmap) >>

SpecRel == InitRel /\ [][NextRel]_vars

\* ---- several invocations in one process, the module map changing
RunWords == { U32(<<"4","e","8","0","0","0","2","0">>), U32(<<"6","0","0","0","0","0","0","0">>), U32(<<"4","8","0","0","0","0","0","4">>) }

InitRuns ==
  /\ DecoderInit
  /\ CallIdle
  /\ MaskIdle
  /\ ModuleLoaded
  /\ outputFile = None
  /\ \E buf \in SeqsOf(RunWords, SectionWords) :
       \E maps \in SeqsOf({ [off \in K |-> FnName(off)] : K \in { {0}, {0, 4} } }, MaxRuns) :
         queue = [i \in 1..MaxRuns |-> Request(buf, maps[i])]

SpecRuns == InitRuns /\ [][NextRel]_vars

\* ---- one invocation on sections of calls, the global map varying
CallWords ==
  { U32(<<"4","8","0","0","0","0","0","9">>), U32(<<"4","b","f","f","f","f","f","d">>), U32(<<"4","8","0","0","0","1","0","1">>), U32(<<"4","e","8","0","0","0","2","0">>) }

\* The names the global map may give: to an address inside the section and to
\* an address outside it.
FrameworkNames ==
  [ a \in { U32(<<"8","0","0","0","1","0","0","8">>), U32(<<"8","0","0","0","1","1","0","0">>) } |->
      IF a = U32(<<"8","0","0","0","1","0","0","8">>) THEN <<"O","S","R","e","p","o","r","t">> ELSE <<"m","e","m","c","p","y">> ]

FrameworkMaps == { [a \in K |-> FrameworkNames[a]] : K \in SUBSET DOMAIN FrameworkNames }

InitCalls ==
  /\ DecoderInit
  /\ CallIdle
  /\ MaskIdle
  /\ ModuleLoaded
  /\ outputFile = None
  /\ \E buf \in Sections(CallWords) :
       \E rmap \in RelMaps(Len(buf)) :
         \E fmap \in FrameworkMaps :
           queue = << [Request(buf, rmap) EXCEPT !.frameworkMapIn = fmap] >>

SpecCalls == InitCalls /\ [][NextRel]_vars

\* ---- one invocation, the declared length of the section up to two words
\* more than the buffer holds
ShortWords == { U32(<<"4","e","8","0","0","0","2","0">>), U32(<<"6","0","0","0","0","0","0","0">>), U32(<<"4","8","0","0","0","0","0","4">>) }

InitShort ==
  /\ DecoderInit
  /\ CallIdle
  /\ MaskIdle
  /\ ModuleLoaded
  /\ outputFile \in { None, OldFile }
  /\ \E buf \in Sections(ShortWords) :
       \E rmap \in RelMaps(Len(buf)) :
         \E extra \in {0, 4, 8} :
           queue = << [Request(buf, rmap) EXCEPT !.length = @ + extra] >>

SpecShort == InitShort /\ [][NextRel]_vars

\* ---- one invocation on sections of branches forward, backward and to
\* themselves
ReachWords ==
  { U32(<<"4","8","0","0","0","0","0","0">>), U32(<<"4","b","f","f","f","f","f","c">>), U32(<<"4","8","0","0","0","0","0","4">>), U32(<<"4","0","8","6","f","f","f","c">>) }

InitReach ==
  /\ DecoderInit
  /\ CallIdle
  /\ MaskIdle
  /\ ModuleLoaded
  /\ outputFile = None
  /\ \E buf \in Sections(ReachWords) :
       \E rmap \in RelMaps(Len(buf)) :
         queue = << Request(buf, rmap) >>

SpecReach == InitReach /\ [][NextRel]_vars


\* ---- one invocation on a module that has not been relocated: the section
\* table gives the text section a low address
LowAddress == U32(<<"0","0","0","0","0","0","0","4">>)

LowWords ==
  { U32(<<"4","8","0","0","0","0","0","4">>), U32(<<"4","8","0","0","0","0","0","8">>), U32(<<"4","b","f","f","f","f","f","c">>), U32(<<"4","e","8","0","0","0","2","0">>) }

InitLow ==
  /\ DecoderInit
  /\ CallIdle
  /\ MaskIdle
  /\ ModuleLoaded
  /\ outputFile = None
  /\ \E buf \in Sections(LowWords) :
       \E rmap \in RelMaps(Len(buf)) :
         queue = << [Request(buf, rmap) EXCEPT !.address = LowAddress] >>

SpecLow == InitLow /\ [][NextRel]_vars

\* ---- one decode of a load or a store, on every displacement
\* lwz r3, d (r1) and stfd f2, d (r1)
LdstHi == { U32(<<"8","0","6","1","0","0","0","0">>)[1], U32(<<"d","8","4","1","0","0","0","0">>)[1] }

InitLdst ==
  /\ DecoderInit
  /\ call \in { << << hi, lo >>, TextAddress >> : hi \in LdstHi, lo \in 0..(TwoTo16 - 1) }
  /\ result = Outcome(ScratchInit)
  /\ decodes = 0
  /\ ref = None
  /\ MaskIdle
  /\ RelIdle

SpecLdst == InitLdst /\ [][NextDecode]_vars

\* ---- one decode of a direct branch: conditional and unconditional words with
\* displacements of both signs, at addresses where the target wraps around
BranchHi ==
  { 16 * 1024 + bo * 32 + bi : bo \in {4, 12, 16, 20}, bi \in {0, 2, 6} }
    \cup { 18 * 1024 + li : li \in {0, 1, 511, 512, 1022, 1023} }
BranchLo == { 0, 1, 2, 3, 4, 8, 11, 32764, 32766, 32768, 65528, 65532, 65535 }
BranchAddrs ==
  { U32(<<"0","0","0","0","0","0","0","0">>), U32(<<"7","f","f","f","f","f","f","c">>), U32(<<"8","0","0","0","1","0","0","0">>), U32(<<"f","f","f","f","f","f","f","c">>) }

InitBranch ==
  /\ DecoderInit
  /\ call \in { << << hi, lo >>, a >> : hi \in BranchHi, lo \in BranchLo, a \in BranchAddrs }
  /\ result = Outcome(ScratchInit)
  /\ decodes = 0
  /\ ref = None
  /\ MaskIdle
  /\ RelIdle

SpecBranch == InitBranch /\ [][NextDecode]_vars

\* ---- one decode of a trap word: the immediate and the register forms with
\* every value of the condition field
TrapHi == { idx * 1024 + to * 32 + a : idx \in {2, 3, 31}, to \in 0..31, a \in {0, 3} }
TrapLo == { 5, 8, 9, 136, 6152, 65535 }

InitTrap ==
  /\ DecoderInit
  /\ call \in { << << hi, lo >>, TextAddress >> : hi \in TrapHi, lo \in TrapLo }
  /\ result = Outcome(ScratchInit)
  /\ decodes = 0
  /\ ref = None
  /\ MaskIdle
  /\ RelIdle

SpecTrap == InitTrap /\ [][NextDecode]_vars
\* ================================================================ properties
\* ---- decoder
\* C1: disassemble is total: for every word and address it returns without
\* throwing.  The state predicate says that no call made so far has thrown.
C1_NeverThrows == decodes > 0 => ~result.threw

\* The call disassemble(0x4c000042, a): crnor 0,0,0 raises a TypeError in crop.
C1_CropThrows == decodes > 0 /\ m_instr = U32(<<"4","c","0","0","0","0","4","2">>) /\ result.threw

\* C2: the mnemonic, operand text, kind and flags of disassemble(w, a) do not
\* depend on the calls made before it: whenever the word and address of the
\* first call of a behaviour are decoded again, the outcome is the outcome of
\* that first call.
C2_DecodePure ==
  (ref # None /\ m_instr = ref[1] /\ m_iaddr = ref[2]) => result = ref[3]

\* A word is decoded, then a different one, then the first one again, and the
\* outcome carries operand text and flag bits.
C2_Witness ==
  /\ ref # None
  /\ ref[4]
  /\ m_instr = ref[1]
  /\ m_iaddr = ref[2]
  /\ result.operands # << >>
  /\ result.flags # {}

IsBranchAlwaysToLR(w) ==
  /\ PPCGETIDX(w) = 19
  /\ PPCGETIDX2(w) = 16
  /\ BitAnd(PPCGETD(w), 20) = 20
  /\ Bit0(w) = 0

\* C10 (as the code has it): such a word decodes to the mnemonic blr with
\* empty operand text, and its kind is OTHER: only bc and bli set BRANCH.
C10_BlrIsOther ==
  (decodes > 0 /\ IsBranchAlwaysToLR(m_instr)) =>
    /\ ~result.threw
    /\ result.opcode = <<"b","l","r">>
    /\ result.operands = <<>>
    /\ result.type = PPCINSTR_OTHER

\* The word 0x4e800020 has been decoded.
C10_Witness == decodes > 0 /\ m_instr = U32(<<"4","e","8","0","0","0","2","0">>) /\ result.opcode = <<"b","l","r">>

\* C10 as stated: such a word is classified as kind BRANCH.
C10_BlrIsBranch ==
  (decodes > 0 /\ IsBranchAlwaysToLR(m_instr)) =>
    /\ result.opcode = <<"b","l","r">>
    /\ result.operands = <<>>
    /\ result.type = PPCINSTR_BRANCH

\* ---- rotate mask
\* The 32-bit number with ones exactly at the positions of P (position 0 is the
\* most significant bit).
MaskOf(P) ==
  LET half(Q) == BitsToNat([p \in 1..16 |-> IF (p - 1) \in Q THEN 1 ELSE 0], 1, 16)
  IN  << half({p \in 0..15 : p \in P}), half({p - 16 : p \in P \cap (16..31)}) >>

\* C8: HelperRotateMask(0, begin, end) has ones exactly at begin..end when
\* begin <= end, is 0xffffffff for begin = 0 and end = 31, and has ones exactly
\* at the positions >= begin or <= end when begin > end.
C8_RotateMaskShape ==
  (maskResult # None /\ maskArgs[1] = 0) =>
    LET begin == maskArgs[2]
        end == maskArgs[3]
    IN  /\ (begin = 0 /\ end = 31) => maskResult = << 65535, 65535 >>
        /\ begin <= end => maskResult = MaskOf(begin..end)
        /\ begin > end => maskResult = MaskOf({p \in 0..31 : p >= begin \/ p <= end})

\* A wrapped mask was computed: HelperRotateMask(0, 28, 3) = 0xf000000f.
C8_Witness == maskArgs = << 0, 28, 3 >> /\ maskResult = U32(<<"f","0","0","0","0","0","0","f">>)

\* ---- pipeline
\* The runs that went through processTextSection.
Ran(i) == history[i].status # "declined"

\* C3: two invocations of the pipeline on identical section bytes, base
\* address and symbol maps write byte-identical output: any two runs of the
\* process that were given the same request left the same file.
C3_SameRequestSameOutput ==
  \A i \in DOMAIN history : \A j \in DOMAIN history :
    (Ran(i) /\ Ran(j) /\ history[i].request = history[j].request)
      => history[i].output = history[j].output

\* The label table of the current run has been built.
Labelled == pc \in {"open", "emit", "done"}

\* The destination of fnObj with the numerically greatest address.
Highest(fnObj) == CHOOSE k \in DOMAIN fnObj : \A j \in DOMAIN fnObj : ~NumGreater(j, k)

\* The destinations of scope f that are named FINISH_FUNCTION.
Finishes(f) == { d \in DOMAIN branchDestinations[f] : branchDestinations[f][d] = FINISH_FUNCTION }

\* C4: in every function scope with at least one destination, exactly one
\* destination is named FINISH_FUNCTION when the highest-address destination
\* has reachedFromBelow false, and none is otherwise.
C4_FinishIffHighestForward ==
  Labelled =>
    \A f \in DOMAIN obj :
      DOMAIN obj[f] # {} =>
        Cardinality(Finishes(f)) =
          (IF obj[f][Highest(obj[f])].reachedFromBelow THEN 0 ELSE 1)

\* The offsets of the section.
Offsets == { o \in 0..(sectionLength - 1) : o % 4 = 0 }

\* C5: whenever the emission pass has read the label table or anything has
\* been written to the stream, the analyzer has visited every instruction of
\* the section and every scope it built has its names in the table.
C5_AnalyzerBeforeEmission ==
  (tableRead \/ stream # "none") =>
    /\ analysed = Offsets
    /\ \A f \in DOMAIN obj :
         /\ Has(branchDestinations, f)
         /\ DOMAIN branchDestinations[f] = DOMAIN obj[f]

\* The emission pass is under way on a section with a labelled destination.
C5_Witness ==
  /\ pc = "emit"
  /\ tableRead
  /\ offsetInSection > 0
  /\ Cardinality(analysed) > 1
  /\ \E f \in DOMAIN obj : DOMAIN obj[f] # {}

\* The target of the direct branch w at address a, decoded on its own.
TargetOf(w, a) ==
  LET d == doDisassembly(ScratchInit, a, w).displacement
  IN  IF Bit1(w) # 0 THEN ToUint32(IntToNum(d)) ELSE AddInt(a, d)

\* w decodes to a direct-address branch.
IsDirectBranch(w, a) == doDisassembly(ScratchInit, a, w).type = PPCINSTR_BRANCH

\* The section starts with a function of two instructions whose only branch
\* is the first instruction, which is no call and targets the second.
TwoInstructionFunction ==
  /\ Len(relBuffer) >= 2
  /\ sectionLength = 4 * Len(relBuffer)
  /\ Has(relMap, 0)
  /\ ~Has(relMap, 4)
  /\ (Len(relBuffer) = 2 \/ Has(relMap, 8))
  /\ IsDirectBranch(relBuffer[1], sectionAddr)
  /\ Bit0(relBuffer[1]) = 0
  /\ TargetOf(relBuffer[1], sectionAddr) = AddInt(sectionAddr, 4)
  /\ ~IsDirectBranch(relBuffer[2], AddInt(sectionAddr, 4))

\* The positions of written that are label lines of the function at offset 0.
LabelLines == { i \in DOMAIN written : written[i].kind = "label" /\ written[i].offset \in {0, 4} }

\* C6: for such a function the output has exactly one label line, and it is
\* the line immediately before the line of the second instruction.
C6_OneLabelBeforeSecond ==
  (pc = "done" /\ TwoInstructionFunction) =>
    /\ Cardinality(LabelLines) = 1
    /\ \A i \in LabelLines :
         /\ written[i].offset = 4
         /\ i < Len(written)
         /\ written[i + 1].kind = "instr"
         /\ written[i + 1].offset = 4

\* The address of the second instruction of the section.
SecondAddress == AddInt(sectionAddr, 4)

\* C7 (as the code has it): for such a function the label the analyzer gives
\* to the address of the second instruction is FINISH_FUNCTION.
C7_SecondIsFinish ==
  (Labelled /\ TwoInstructionFunction /\ Has(branchDestinations[0], SecondAddress))
    => branchDestinations[0][SecondAddress] = FINISH_FUNCTION

\* Such a function was emitted with the label line FINISH_FUNCTION_80001004.
C7_Witness ==
  /\ pc = "done"
  /\ TwoInstructionFunction
  /\ \E i \in LabelLines : written[i].text = <<"F","I","N","I","S","H","_","F","U","N","C","T","I","O","N","_","8","0","0","0","1","0","0","4",":","\n">>

\* C7 as stated: that label is not FINISH_FUNCTION.
C7_SecondIsNotFinish ==
  (Labelled /\ TwoInstructionFunction /\ Has(branchDestinations[0], SecondAddress))
    => branchDestinations[0][SecondAddress] # FINISH_FUNCTION

\* ---- scenario D
\* The call disassemble(0x4800000b, 0x80001000) has just been made.
ScenarioD ==
  /\ decodes > 0
  /\ m_instr = U32(<<"4","8","0","0","0","0","0","b">>)
  /\ m_iaddr = U32(<<"8","0","0","0","1","0","0","0">>)

\* C11 (as the code has it): the word 0x4800000b at 0x80001000 decodes to
\* mnemonic bla with operand text ->0x00000008 and branch target 8: its
\* displacement field holds 8, and the target of an absolute branch is the
\* displacement.
C11_BlaTargetEight ==
  ScenarioD =>
    /\ result.opcode = <<"b","l","a">>
    /\ result.operands = <<"-",">","0","x","0","0","0","0","0","0","0","8">>
    /\ result.type = PPCINSTR_BRANCH
    /\ m_displacement = 8

\* Scenario D has been decoded after another word, and gave bla.
C11_Witness ==
  /\ ScenarioD
  /\ decodes > 1
  /\ result.opcode = <<"b","l","a">>
  /\ ~result.threw

\* C11 as stated: the operand text is ->0x00000000 and the branch target is 0.
C11_BlaTargetZero ==
  ScenarioD =>
    /\ result.opcode = <<"b","l","a">>
    /\ result.operands = <<"-",">","0","x","0","0","0","0","0","0","0","0">>
    /\ m_displacement = 0

\* ---- calls
\* The word is the direct call bl (primary opcode 18, relative, linking).
IsCallWord(w) == PPCGETIDX(w) = 18 /\ Low2(w) = 1

\* The target of the call word w at address a, from the encoding.
CallTarget(w, a) ==
  LET li == (w[1] % 1024) * TwoTo16 + (w[2] - Low2(w))
  IN  AddInt(a, IF li >= 33554432 THEN li - 67108864 ELSE li)

\* What the claim has the line of the call to target t say after the operands.
ExpectedCallNote(t) ==
  LET rel == SubNum(t, sectionAddr)
  IN  IF t \in DOMAIN frameworkMap
      THEN <<" ","_","_","_"," ">> \o FmtX08(t) \o <<" ">> \o frameworkMap[t] \o <<" ","_","_","_">>
      ELSE IF rel[1] = 0 /\ rel[2] \in DOMAIN relMap
      THEN <<" ","_","_","_"," ">> \o FmtX08(t) \o <<" ","0","x">> \o HexOfNat(rel[2]) \o <<" ">>
             \o relMap[rel[2]] \o <<" ","_","_","_">>
      ELSE <<" ","U","N","R","E","C","O","G","N","I","Z","E","D"," ","B","R","A","N","C","H">>

\* The instruction lines written for call words.
CallLines ==
  { i \in DOMAIN written :
      written[i].kind = "instr" /\ IsCallWord(relBuffer[(written[i].offset \div 4) + 1]) }

\* C12: the line of every bl is annotated from the global map when it names
\* the target (target and name, no offset), otherwise from the module-local
\* map at target - section base (target, offset and name), otherwise it is
\* marked UNRECOGNIZED BRANCH.
C12_GlobalMapFirst ==
  \A i \in CallLines :
    LET t == CallTarget(relBuffer[(written[i].offset \div 4) + 1],
                        AddInt(sectionAddr, written[i].offset))
    IN  written[i].text = <<"\t","b","l","\t","-",">","0","x">> \o FmtX08(t) \o ExpectedCallNote(t) \o <<"\n">>

\* A finished run wrote the line of a call that both maps could resolve, and
\* the line of a call that only the module-local map resolves.
C12_Witness ==
  /\ pc = "done"
  /\ U32(<<"8","0","0","0","1","0","0","8">>) \in DOMAIN frameworkMap
  /\ {0, 4, 8} \subseteq DOMAIN relMap
  /\ \E i \in CallLines : written[i].text = <<"\t","b","l","\t","-",">","0","x","8","0","0","0","1","0","0","8"," ","_","_","_"," ","8","0","0","0","1","0","0","8"," ","O","S","R","e","p","o","r","t"," ","_","_","_","\n">>
  /\ \E i \in CallLines : written[i].text = <<"\t","b","l","\t","-",">","0","x","8","0","0","0","1","0","0","4"," ","_","_","_"," ","8","0","0","0","1","0","0","4"," ","0","x","4"," ","f","n","_","4"," ","_","_","_","\n">>

\* ---- layout
\* The positions of written that are header lines.
HeaderLines == { i \in DOMAIN written : written[i].kind = "header" }

\* The header line at position i is the middle of a block start: a divider
\* line on each side.
BlockStart(i) ==
  /\ i >= 3
  /\ written[i - 1] = Wr("divider", written[i].offset, EQUALS_DIVIDER)
  /\ (i < Len(written) => written[i + 1] = Wr("divider", written[i].offset, EQUALS_DIVIDER))

\* The text t is one complete, non-empty line.
IsFullLine(t) ==
  /\ Len(t) > 1
  /\ t[Len(t)] = "\n"
  /\ \A p \in 1..(Len(t) - 1) : t[p] # "\n"

\* C13 (as the code has it): the divider line that starts a later function
\* block is separated from the instruction line before it by exactly two
\* blank lines (the one write of two line breaks), and the first block starts
\* right after the title, with nothing written in between.
C13_TwoBlankLinesBetweenBlocks ==
  \A i \in HeaderLines :
    /\ BlockStart(i)
    /\ IF written[i].offset > 0
       THEN /\ i >= 5
            /\ written[i - 2].text = << "\n", "\n" >>
            /\ written[i - 3].kind = "instr"
            /\ written[i - 3].offset = written[i].offset - 4
            /\ IsFullLine(written[i - 3].text)
       ELSE /\ i = 3
            /\ written[1].kind = "title"

\* A finished run wrote two function blocks.
C13_Witness ==
  /\ pc = "done"
  /\ \E i \in HeaderLines : written[i].offset = 0
  /\ \E i \in HeaderLines : written[i].offset = 4 /\ written[i - 3].text = <<"\t","b","l","r","\t","\n">>

\* C13 as stated: exactly one blank line lies between the last instruction
\* line of a block and the divider line of the next block.
C13_OneBlankLineBetweenBlocks ==
  \A i \in HeaderLines :
    written[i].offset > 0 =>
      /\ written[i - 2].text = << "\n" >>
      /\ written[i - 3].kind = "instr"

\* ---- exceptions
\* The buffer of the run covers the declared length of the section.
BufferCovers == sectionLength <= 4 * Len(relBuffer)

\* C14: once the buffer covers the declared length no exception leaves
\* populateBranchDestinations or the emission pass: no run ends failed.
C14_NoExceptionEscapes == BufferCovers => pc # "failed"

\* A run on a module-local map without an entry at offset 0 ended with an
\* exception in the emission pass, after the header of the first block.
C14_ThrowsWithoutScope ==
  /\ pc = "failed"
  /\ BufferCovers
  /\ ~Has(relMap, 0)
  /\ stream = "open"
  /\ \E i \in DOMAIN written : written[i].kind = "header"

\* The buffer of the run is shorter than the declared length of the section.
BufferShort == sectionLength > 4 * Len(relBuffer)

\* C15: with a buffer shorter than the declared length the run cannot get
\* past the analyzer pass (its next read is always pending until it fails),
\* the existing output file is never removed and nothing is written.
C15_ShortBufferWritesNothing ==
  BufferShort =>
    /\ pc \in {"analyze", "failed", "declined"}
    /\ (pc = "analyze" => offsetInSection < sectionLength)
    /\ outputFile \in { None, OldFile }
    /\ stream = "none"
    /\ written = << >>
    /\ ~tableRead

\* A run on a short buffer failed after analysing every word the buffer
\* holds, and the file that existed is still there.
C15_Witness ==
  /\ BufferShort
  /\ pc = "failed"
  /\ outputFile = OldFile
  /\ Cardinality(analysed) = Len(relBuffer)
  /\ Len(relBuffer) >= 2

\* ---- branch lines
\* The scope of the instruction at offset off: the last offset up to off that
\* the module-local map names.
ScopeAt(off) ==
  CHOOSE f \in DOMAIN relMap : f <= off /\ \A g \in DOMAIN relMap : g <= off => g <= f

\* The text t ends with suf.
EndsWith(t, suf) ==
  Len(t) >= Len(suf) /\ SubSeq(t, Len(t) - Len(suf) + 1, Len(t)) = suf

\* The instruction lines written for branches that are looked up in the
\* label table: branches with a target other than bl.
TargetLines ==
  { i \in DOMAIN written :
      /\ written[i].kind = "instr"
      /\ LET m == match(Tail(written[i].text))
         IN  m.ok /\ m.m1 # <<"b","l">> /\ m.m1 # <<"b","l","r">> }

\* C16: every such line is annotated ===> <label>_<target> with the label the
\* table of its function gives to the target the analyzer recorded for that
\* function, and none is marked UNRECOGNIZED BRANCH TARGET.
C16_RecordedTargetsAreLabelled ==
  \A i \in TargetLines :
    LET m == match(Tail(written[i].text))
        f == ScopeAt(written[i].offset)
        t == NumberOfHex8(m.m2)
    IN  /\ \E g \in DOMAIN relMap : g <= written[i].offset
        /\ Has(obj, f)
        /\ Has(obj[f], t)
        /\ EndsWith(written[i].text,
                    <<" ","=","=","=",">"," ">> \o branchDestinations[f][t] \o <<"_">> \o m.m2 \o <<"\n">>)
        /\ ~EndsWith(written[i].text, <<" ","U","N","R","E","C","O","G","N","I","Z","E","D"," ","B","R","A","N","C","H"," ","T","A","R","G","E","T","\n">>)

\* A finished run wrote a branch line in a second function with its label.
C16_Witness ==
  /\ pc = "done"
  /\ \E i \in TargetLines :
       /\ written[i].offset = 4
       /\ ScopeAt(4) = 4
       /\ written[i].text = <<"\t","b","\t","-",">","0","x","8","0","0","0","1","0","0","8"," ","=","=","=",">"," ","F","I","N","I","S","H","_","F","U","N","C","T","I","O","N","_","8","0","0","0","1","0","0","8","\n">>

\* ---- the label table across runs
\* C17: the label table a run consults holds only the function scopes that
\* the analyzer pass of that run built.
C17_TableHoldsOnlyThisRun ==
  Labelled => DOMAIN branchDestinations \subseteq DOMAIN obj

\* A run reads, at a return, a scope that an earlier run left in the table.
C17_StaleScopeRead ==
  /\ pc = "emit"
  /\ Len(history) >= 1
  /\ \E f \in DOMAIN branchDestinations \ DOMAIN obj :
       /\ f = offsetInSection
       /\ offsetInSection >= 4
       /\ relBuffer[offsetInSection \div 4] = U32(<<"4","e","8","0","0","0","2","0">>)
       /\ startingNewFn

\* ---- the analyzer
\* The offsets of the section whose instruction lies in a function scope.
ScopedOffsets == { o \in Offsets : \E g \in DOMAIN relMap : g <= o }

\* The word at offset o of the section and its address.
WordOf(o) == relBuffer[(o \div 4) + 1]
AddressOf(o) == AddInt(sectionAddr, o)

\* The instruction at offset o is a direct-address branch that does not link.
IsPlainBranchAt(o) == IsDirectBranch(WordOf(o), AddressOf(o)) /\ Bit0(WordOf(o)) = 0

\* C18: after the analyzer pass the target of every direct-address branch
\* that is no call, conditional or not, is a key of the destination table of
\* its function scope.
C18_EveryBranchRecorded ==
  Labelled =>
    \A o \in ScopedOffsets :
      IsPlainBranchAt(o) =>
        /\ Has(obj, ScopeAt(o))
        /\ Has(obj[ScopeAt(o)], TargetOf(WordOf(o), AddressOf(o)))

\* The analyzer has passed over bne- cr1 in a scope and recorded nothing.
C18_ConditionalMissed ==
  /\ Labelled
  /\ Has(relMap, 0)
  /\ WordOf(0) = U32(<<"4","0","8","6","0","0","0","4">>)
  /\ Has(obj, 0)
  /\ DOMAIN obj[0] = {}
  /\ m_opcode = <<"b","n","e","-">>

\* What the branch pattern finds in the text of the instruction at offset o.
MatchAt(o) == match(InstrText(doDisassembly(ScratchInit, AddressOf(o), WordOf(o))))

\* The analyzer has recorded the branch at offset o in scope f with target d.
RecordedBranch(o, f, d) ==
  /\ o \in analysed
  /\ \E g \in DOMAIN relMap : g <= o
  /\ ScopeAt(o) = f
  /\ MatchAt(o).ok
  /\ MatchAt(o).m1 # <<"b","l">>
  /\ IsDirectBranch(WordOf(o), AddressOf(o))
  /\ TargetOf(WordOf(o), AddressOf(o)) = d

\* C19: at every point of the analyzer pass and after it, a destination's
\* reachedFromBelow is true exactly when a branch recorded so far in the same
\* scope, at an address strictly greater than the destination, targets it.
C19_ReachedFromBelowRule ==
  \A f \in DOMAIN obj : \A d \in DOMAIN obj[f] :
    obj[f][d].reachedFromBelow <=>
      \E o \in Offsets : RecordedBranch(o, f, d) /\ NumGreater(AddressOf(o), d)

\* After the pass one scope holds a destination reached from a higher
\* address and one that only a branch to itself targets.
C19_Witness ==
  /\ Labelled
  /\ \E f \in DOMAIN obj :
       /\ \E d \in DOMAIN obj[f] : obj[f][d].reachedFromBelow
       /\ \E d \in DOMAIN obj[f] :
            /\ ~obj[f][d].reachedFromBelow
            /\ \E o \in Offsets : RecordedBranch(o, f, d) /\ AddressOf(o) = d

\* C20: in every function scope with destinations, the destination examined
\* for FINISH_FUNCTION is the one with the numerically greatest address.
C20_FinishSlotIsHighest ==
  Labelled =>
    \A f \in DOMAIN obj :
      DOMAIN obj[f] # {} => FinishCandidate(obj[f]) = Highest(obj[f])

\* The pass examined address 4 in a scope that also holds 0x80001008, and the
\* destination at the highest address got an ordinary name.
C20_LowAddressExamined ==
  /\ Labelled
  /\ Has(obj, 0)
  /\ DOMAIN obj[0] = { U32(<<"0","0","0","0","0","0","0","4">>), U32(<<"8","0","0","0","1","0","0","8">>) }
  /\ FinishCandidate(obj[0]) = U32(<<"0","0","0","0","0","0","0","4">>)
  /\ ~obj[0][U32(<<"8","0","0","0","1","0","0","8">>)].reachedFromBelow
  /\ branchDestinations[0][U32(<<"8","0","0","0","1","0","0","8">>)] = <<"B","A","N","A","N","A">>

\* ---- claims on label names, boundaries and the remaining decoder families

\* The destinations of scope f that did not get the finish name.
Ordinary(f) ==
  { k \in DOMAIN obj[f] : branchDestinations[f][k] # FINISH_FUNCTION }

\* C21: once the names are assigned, in every function scope the destinations
\* other than the finish slot, taken in ascending address order, carry the
\* names of the indices 0, 1, 2, ...: the finish slot consumes no index.
C21_NamesAreConsecutive ==
  Labelled =>
    \A f \in DOMAIN obj :
      LET keys == KeysOf(Ordinary(f))
      IN  \A i \in 1..Len(keys) : branchDestinations[f][keys[i]] = LabelName(i - 1)

\* The scope at offset 0 of a section at address 4 holds the destinations 8
\* and 12; 8 got the finish name and 12 got the name of index 1.
C21_FinishSlotTookIndex ==
  /\ Labelled
  /\ sectionAddr = LowAddress
  /\ Has(obj, 0)
  /\ DOMAIN obj[0] = { U32(<<"0","0","0","0","0","0","0","8">>), U32(<<"0","0","0","0","0","0","0","c">>) }
  /\ branchDestinations[0][U32(<<"0","0","0","0","0","0","0","8">>)] = FINISH_FUNCTION
  /\ branchDestinations[0][U32(<<"0","0","0","0","0","0","0","c">>)] = <<"B","A","N","A","N","A">>

\* ---- boundaries
\* The positions of written that hold the instruction line of offset o.
InstrAt(o) == { i \in DOMAIN written : written[i].kind = "instr" /\ written[i].offset = o }

\* The instruction line of offset o has been written and is a return.
ReturnAt(o) == \E i \in InstrAt(o) : IsBlrLine(DropLast(Tail(written[i].text), 1))

\* What was written for offset o ahead of its label line and instruction
\* line: the kinds, and the text of the separators.
Lead(o) ==
  LET ws == SelectSeq(written,
                      LAMBDA w : w.offset = o /\ w.kind \in {"blank", "gap", "divider", "header"})
  IN  [ i \in 1..Len(ws) |-> IF ws[i].kind \in {"blank", "gap"} THEN ws[i].text ELSE ws[i].kind ]

HeaderBlock == << << "\n", "\n" >>, "divider", "header", "divider" >>
BlankLine == << << "\n" >> >>

\* C22 (as the code has it): once a return has been written at offset o and
\* the instruction at o + 4 has been written too, that instruction starts a
\* header block when o + 4 is a function scope of the label table, and is
\* otherwise preceded by one blank line and no header.
C22_HeaderAfterReturnIffScope ==
  \A o \in Offsets :
    (ReturnAt(o) /\ InstrAt(o + 4) # {}) =>
      Lead(o + 4) = IF Has(branchDestinations, o + 4) THEN HeaderBlock ELSE BlankLine

\* A finished run wrote a return at offset 0 and one blank line before the
\* instruction at offset 4, which is a destination of the active scope and
\* not a function scope.
C22_Witness ==
  /\ pc = "done"
  /\ ReturnAt(0)
  /\ InstrAt(4) # {}
  /\ ~Has(branchDestinations, 4)
  /\ Has(branchDestinations[0], AddressOf(4))
  /\ Lead(4) = BlankLine

\* C22 as stated: the instruction after a return starts a header block when
\* its address is a destination of the active scope, and is otherwise
\* preceded by one blank line.
C22_HeaderAfterReturnIffDestination ==
  \A o \in Offsets :
    (ReturnAt(o) /\ InstrAt(o + 4) # {}) =>
      Lead(o + 4) = IF Has(branchDestinations[ScopeAt(o)], AddressOf(o + 4))
                    THEN HeaderBlock ELSE BlankLine

\* ---- rotate mask, rotated
\* The bit positions of the begin..end mask (position 0 is the most
\* significant bit), circular when begin > end.
Span(begin, end) ==
  IF begin <= end THEN begin..end ELSE { p \in 0..31 : p >= begin \/ p <= end }

\* C23 (as the code has it): for every shift r and every begin and end,
\* HelperRotateMask(r, begin, end) is the begin..end mask rotated right by r
\* bit positions: the bit of position p moves to position (p + r) mod 32.
C23_MaskRotatedRight ==
  maskResult # None =>
    maskResult =
      MaskOf({ (p + maskArgs[1]) % 32 : p \in Span(maskArgs[2], maskArgs[3]) })

\* The mask of rlwinm with shift 4, begin 0 and end 27 was computed:
\* 0xfffffff0 rotated right by 4.
C23_Witness == maskArgs = << 4, 0, 27 >> /\ maskResult = U32(<<"0","f","f","f","f","f","f","f">>)

\* C23 as stated: the result is the begin..end mask rotated left by r.
C23_MaskRotatedLeft ==
  maskResult # None =>
    maskResult =
      MaskOf({ (p + 32 - maskArgs[1]) % 32 : p \in Span(maskArgs[2], maskArgs[3]) })

\* ---- load and store displacements
\* A load or store with a displacement has been decoded.
LdstDecoded == decodes > 0 /\ m_type = PPCINSTR_LDST /\ m_instr[1] \in LdstHi

\* The displacement text of the operands "<reg>, <displacement> (<base>)":
\* what stands between the first ", " and the " (" that follows it.
DisplacementText(ops) ==
  LET c == CHOOSE i \in 1..Len(ops) : ops[i] = "," /\ \A j \in 1..(i - 1) : ops[j] # ","
      e == CHOOSE i \in (c + 2)..Len(ops) : ops[i] = " " /\ \A j \in (c + 2)..(i - 1) : ops[j] # " "
  IN  SubSeq(ops, c + 2, e - 1)

\* The four hexadecimal digits of n, 0 <= n < 2^16.
Hex4(n) ==
  << HexDigits[(n \div 4096) + 1], HexDigits[((n \div 256) % 16) + 1],
     HexDigits[((n \div 16) % 16) + 1], HexDigits[(n % 16) + 1] >>

\* C24 (as the code has it): the displacement d of a load or store is
\* rendered as -0x and the four hex digits of 0x10000 - d when bit 15 of d is
\* set, as 0x and the four hex digits of d when d is positive, and as the
\* bare digit 0 when d is zero.
C24_DisplacementText ==
  LdstDecoded =>
    LET d == m_instr[2]
    IN  DisplacementText(m_operands) =
          IF d = 0 THEN <<"0">>
          ELSE IF d >= 32768 THEN <<"-","0","x">> \o Hex4(TwoTo16 - d)
          ELSE <<"0","x">> \o Hex4(d)

\* lwz r3, 0 (r1) was decoded: the zero displacement is the bare digit.
C24_Witness ==
  /\ LdstDecoded
  /\ m_instr = U32(<<"8","0","6","1","0","0","0","0">>)
  /\ DisplacementText(m_operands) = <<"0">>

\* C24 as stated: the displacement is always rendered in hexadecimal, 0x0000
\* for zero.
C24_AlwaysHexadecimal ==
  LdstDecoded =>
    LET d == m_instr[2]
    IN  DisplacementText(m_operands) =
          IF d >= 32768 THEN <<"-","0","x">> \o Hex4(TwoTo16 - d) ELSE <<"0","x">> \o Hex4(d)

\* ---- condition-register logical instructions
\* The extended opcodes of the condition-register logical instructions, each
\* with its own name and its alias (empty when it has none).
CrNames ==
  [ x \in {33, 129, 193, 225, 257, 289, 417, 449} |->
      CASE x = 33 -> << <<"n","o","r">>, <<"n","o","t">> >>
        [] x = 129 -> << <<"a","n","d","c">>, <<>> >>
        [] x = 193 -> << <<"x","o","r">>, <<"c","l","r">> >>
        [] x = 225 -> << <<"n","a","n","d">>, <<>> >>
        [] x = 257 -> << <<"a","n","d">>, <<>> >>
        [] x = 289 -> << <<"e","q","v">>, <<"s","e","t">> >>
        [] x = 417 -> << <<"o","r","c">>, <<>> >>
        [] x = 449 -> << <<"o","r">>, <<"m","o","v","e">> >> ]

\* A condition-register logical word with bit 0 clear has been decoded.
CrLogicalDecoded ==
  /\ decodes > 0
  /\ PPCGETIDX(m_instr) = 19
  /\ PPCGETIDX2(m_instr) \in DOMAIN CrNames
  /\ Bit0(m_instr) = 0

\* C25: such a word with identical source fields decodes to the alias with
\* the two operands destination, source when its operation has an alias, and
\* to its own mnemonic with three operands when it has none; with different
\* source fields it decodes to its own mnemonic with three operands.
C25_CrAliases ==
  CrLogicalDecoded =>
    LET crd == PPCGETD(m_instr)
        cra == PPCGETA(m_instr)
        crb == PPCGETB(m_instr)
        n == CrNames[PPCGETIDX2(m_instr)]
        aliased == cra = crb /\ n[2] # <<>>
    IN  /\ ~result.threw
        /\ m_opcode = <<"c","r">> \o (IF aliased THEN n[2] ELSE n[1])
        /\ m_operands =
             IF aliased THEN DecOfInt(crd) \o <<","," ">> \o DecOfInt(cra)
             ELSE DecOfInt(crd) \o <<","," ">> \o DecOfInt(cra) \o <<","," ">> \o DecOfInt(crb)

\* crxor 4, 0, 0 (0x4c800182), which the claim has decode to crclr 4, 0, was
\* decoded and the call threw.
C25_AliasThrows ==
  /\ CrLogicalDecoded
  /\ m_instr = U32(<<"4","c","8","0","0","1","8","2">>)
  /\ result.threw

\* crnor with different source fields decoded to its own mnemonic.
C25_DifferentSourcesDecode ==
  /\ CrLogicalDecoded
  /\ m_instr = U32(<<"4","c","0","0","0","8","4","2">>)
  /\ ~result.threw
  /\ m_opcode = <<"c","r","n","o","r">>
  /\ m_operands = <<"0",","," ","0",","," ","1">>

\* ---- branch targets
\* A direct branch word (bc or b) has been decoded.
BranchDecoded == decodes > 0 /\ PPCGETIDX(m_instr) \in {16, 18}

\* The displacement of the branch word w as a 32-bit two's-complement value:
\* w & 0xFFFC extended from bit 15 for bc, w & 0x03FFFFFC extended from bit 25
\* for b.
SignExtendedDisplacement(w) ==
  LET lo == w[2] - (w[2] % 4)
  IN  IF PPCGETIDX(w) = 16
      THEN << IF lo >= 32768 THEN TwoTo16 - 1 ELSE 0, lo >>
      ELSE << IF (w[1] % 1024) >= 512 THEN (w[1] % 1024) + (TwoTo16 - 1024) ELSE w[1] % 1024, lo >>

\* x + y modulo 2^32.
Add32(x, y) ==
  LET lo == x[2] + y[2]
  IN  << (x[1] + y[1] + (lo \div TwoTo16)) % TwoTo16, lo % TwoTo16 >>

\* C26: the eight hex digits after ->0x are the sign-extended displacement
\* modulo 2^32 when the absolute bit is set, and the address plus the
\* sign-extended displacement modulo 2^32 otherwise.
C26_BranchTarget ==
  BranchDecoded =>
    LET d == SignExtendedDisplacement(m_instr)
        t == IF Bit1(m_instr) # 0 THEN d ELSE Add32(m_iaddr, d)
    IN  /\ ~result.threw
        /\ EndsWith(m_operands, <<"-",">","0","x">> \o Hex4(t[1]) \o Hex4(t[2]))

\* bne -4 at address 0 was decoded: the target wraps to 0xfffffffc.
C26_Witness ==
  /\ BranchDecoded
  /\ m_instr = U32(<<"4","0","8","2","f","f","f","c">>)
  /\ m_iaddr = U32(<<"0","0","0","0","0","0","0","0">>)
  /\ m_operands = <<" ","-",">","0","x","f","f","f","f","f","f","f","c">>

\* ---- traps
\* A trap word has been decoded: the immediate form (tdi, twi) or the register
\* form (tw with bit 0 clear, td).
TrapImmediate == decodes > 0 /\ PPCGETIDX(m_instr) \in {2, 3}
TrapRegister ==
  /\ decodes > 0
  /\ PPCGETIDX(m_instr) = 31
  /\ \/ PPCGETIDX2(m_instr) = 4 /\ Bit0(m_instr) = 0
     \/ PPCGETIDX2(m_instr) = 68

\* The decoded trap word is of the 64-bit kind (tdi, td).
TrapSixtyFour == IF TrapImmediate THEN PPCGETIDX(m_instr) = 2 ELSE PPCGETIDX2(m_instr) = 68

\* t, the width letter and the suffix of the condition c.
TrapName(c) == <<"t">> \o (IF TrapSixtyFour THEN <<"d">> ELSE <<"w">>) \o c

\* The decoded trap word has a condition with an entry in the table and
\* carries the mnemonic with that suffix.
TrapMapped ==
  /\ trap_condition[PPCGETD(m_instr) + 1] # Null
  /\ m_opcode = TrapName(trap_condition[PPCGETD(m_instr) + 1])
  /\ PPCF_ILLEGAL \notin m_flags

\* C27 (as the code has it): a condition with an entry in the table gives the
\* mnemonic with that suffix in both forms.  Without an entry, the register
\* form gives td 31,0,0 for condition 31 of the 64-bit kind, trap without
\* operands for condition 31 of the 32-bit kind, and an illegal instruction
\* otherwise; the immediate form gives twi or tdi with the condition as its
\* first operand, and is never illegal.
C27_TrapGroup ==
  (TrapImmediate \/ TrapRegister) =>
    LET to == PPCGETD(m_instr)
    IN  \/ TrapMapped
        \/ /\ trap_condition[to + 1] = Null
           /\ IF TrapRegister
              THEN IF to = 31
                   THEN IF TrapSixtyFour
                        THEN m_opcode = <<"t","d">> /\ m_operands = <<"3","1",",","0",",","0">>
                        ELSE /\ m_opcode = <<"t","r","a","p">>
                             /\ m_operands = <<>>
                             /\ PPCF_ILLEGAL \notin m_flags
                   ELSE m_opcode = <<"(","i","l","l",")">> /\ PPCF_ILLEGAL \in m_flags
              ELSE /\ m_opcode = TrapName(<<"i">>)
                   /\ SubSeq(m_operands, 1, Len(DecOfInt(to)) + 2) = DecOfInt(to) \o <<","," ">>
                   /\ PPCF_ILLEGAL \notin m_flags

\* twi with the reserved condition 3 was decoded: twi 3, r3, -1.
C27_Witness ==
  /\ TrapImmediate
  /\ m_instr = U32(<<"0","c","6","3","f","f","f","f">>)
  /\ m_opcode = <<"t","w","i">>
  /\ PPCF_ILLEGAL \notin m_flags

\* C27 as stated: without an entry in the table only condition 31 of the
\* 64-bit register form is rendered, as td 31,0,0; every other such word is
\* flagged illegal.
C27_ReservedAreIllegal ==
  (TrapImmediate \/ TrapRegister) =>
    \/ TrapMapped
    \/ /\ trap_condition[PPCGETD(m_instr) + 1] = Null
       /\ IF TrapRegister /\ TrapSixtyFour /\ PPCGETD(m_instr) = 31
          THEN m_opcode = <<"t","d">> /\ m_operands = <<"3","1",",","0",",","0">>
          ELSE PPCF_ILLEGAL \in m_flags

\* ---- function blocks
\* The header line of the function at offset o, as the claim describes it.
HeaderText(o) ==
  <<"0","x">> \o FmtX(IntToNum(o)) \o <<" ">> \o FmtX08(HeaderAddress(sectionAddr, o)) \o <<" ">>
    \o relMap[o] \o <<":","\n">>

\* C28: every instruction line written for an offset that the module-local
\* map names is preceded, ahead of its label line if it has one, by a divider
\* line, the header line of that offset and a second divider line.
C28_EveryFunctionHasHeader ==
  \A o \in DOMAIN relMap :
    InstrAt(o) # {} =>
      /\ Lead(o) \in { HeaderBlock, << "divider", "header", "divider" >> }
      /\ \E i \in HeaderLines :
           /\ written[i].offset = o
           /\ written[i].text = HeaderText(o)
           /\ BlockStart(i)

\* A finished run on [b ->0x80001004, blr] with functions at offsets 0 and 4
\* wrote the second function after one blank line, without a header.
C28_FunctionWithoutHeader ==
  /\ pc = "done"
  /\ relBuffer = << U32(<<"4","8","0","0","0","0","0","4">>), U32(<<"4","e","8","0","0","0","2","0">>) >>
  /\ DOMAIN relMap = {0, 4}
  /\ InstrAt(4) # {}
  /\ Lead(4) = BlankLine
  /\ \A i \in HeaderLines : written[i].offset = 0

\* ---- boundary flags
\* C29: startingNewFn and leaveBlankLine are never both true, and what is
\* written ahead of an instruction is nothing, one blank line, or one header
\* block: never a blank line together with a header block.
C29_FlagsExclusive ==
  /\ ~(startingNewFn /\ leaveBlankLine)
  /\ \A o \in Offsets :
       Lead(o) \in { << >>, BlankLine, HeaderBlock, << "divider", "header", "divider" >> }

\* The emission pass is about to process the instruction at offset 8 with a
\* header scheduled, after it wrote a blank line ahead of the return at
\* offset 4.
C29_Witness ==
  /\ pc = "emit"
  /\ offsetInSection = 8
  /\ startingNewFn
  /\ ~leaveBlankLine
  /\ ReturnAt(4)
  /\ Lead(4) = BlankLine

\* ---- annotations and label lines
\* The instruction lines that carry an annotation ===> <label>_<target>.
AnnotatedLines ==
  { i \in TargetLines : ~EndsWith(written[i].text, <<" ","U","N","R","E","C","O","G","N","I","Z","E","D"," ","B","R","A","N","C","H"," ","T","A","R","G","E","T","\n">>) }

\* The offsets of the section whose address is the target of line i.
TargetOffsets(i) ==
  { o \in Offsets : AddressOf(o) = NumberOfHex8(match(Tail(written[i].text)).m2) }

\* The label line named in the annotation of line i stands immediately
\* before the instruction line of offset o.
LabelLineFor(i, o) ==
  \E j \in DOMAIN written :
    /\ written[j].kind = "label"
    /\ written[j].offset = o
    /\ EndsWith(written[i].text, <<" ","=","=","=",">"," ">> \o DropLast(written[j].text, 2) \o <<"\n">>)
    /\ j < Len(written)
    /\ written[j + 1].kind = "instr"
    /\ written[j + 1].offset = o

\* C30: in the output of a finished run, every annotation whose target lies
\* inside the section names a label line that stands immediately before the
\* instruction at the target.
C30_AnnotationsHaveLabelLines ==
  pc = "done" =>
    \A i \in AnnotatedLines : \A o \in TargetOffsets(i) : LabelLineFor(i, o)

\* A finished run annotated the branch at offset 0 with the label
\* FINISH_FUNCTION_80001004 and wrote no label line at all: the target is the
\* first instruction of the function at offset 4.
C30_AnnotationWithoutLabel ==
  /\ pc = "done"
  /\ DOMAIN relMap = {0, 4}
  /\ \E i \in AnnotatedLines :
       /\ written[i].text = <<"\t","b","\t","-",">","0","x","8","0","0","0","1","0","0","4"," ","=","=","=",">"," ","F","I","N","I","S","H","_","F","U","N","C","T","I","O","N","_","8","0","0","0","1","0","0","4","\n">>
       /\ TargetOffsets(i) = {4}
  /\ InstrAt(4) # {}
  /\ \A j \in DOMAIN written : written[j].kind # "label"
====
